---- MODULE Spec2Model ----
(***************************************************************************)
(* Verification model of the STAC resolver: the Item resolver              *)
(* (io/private/stac/Item.cpp) and the concurrent Catalog walker            *)
(* (io/private/stac/Catalog.cpp) running on the shared worker pool.        *)
(***************************************************************************)
EXTENDS Integers, Sequences, FiniteSets, TLC

(***************************************************************************)
(* Bounds of the model.                                                    *)
(***************************************************************************)
\* largest pool size explored (ThreadPool(m_args->threads)); sizes 1..MaxThreads
MaxThreads == 2
\* depth of the catalog chain below the root (root = depth 0)
MaxDepth == 2

(***************************************************************************)
(* Strings are sequences of one-character strings, so that matching can    *)
(* look inside them.                                                       *)
(***************************************************************************)
Alpha == <<"A", "l", "p", "h", "a">>
Beta == <<"B", "e", "t", "a">>
Gamma == <<"G", "a", "m", "m", "a">>
RootId == <<"R", "o", "o", "t">>
SubId == <<"S", "u", "b">>
OtherId == <<"X", "S", "u", "b">>

\* regular expressions: a sequence of atoms; "^" and "$" are anchors,
\* ".*" matches any run of characters, anything else is a literal character
PatA == <<"^", "A", ".*">>
PatS == <<"S", ".*">>
PatEt == <<"e", "t">>

RECURSIVE MatchFrom(_, _, _, _)
MatchFrom(s, p, i, j) ==
    IF j > Len(p) THEN i = Len(s) + 1
    ELSE IF p[j] = "^" THEN i = 1 /\ MatchFrom(s, p, i, j + 1)
    ELSE IF p[j] = "$" THEN i = Len(s) + 1 /\ MatchFrom(s, p, i, j + 1)
    ELSE IF p[j] = ".*" THEN \E k \in i..(Len(s) + 1) : MatchFrom(s, p, k, j + 1)
    ELSE i <= Len(s) /\ s[i] = p[j] /\ MatchFrom(s, p, i + 1, j + 1)

\* std::regex_search: some substring is matched by the pattern
RegexSearch(s, p) ==
    \E a \in 1..(Len(s) + 1) : \E b \in (a - 1)..Len(s) :
        MatchFrom(SubSeq(s, a, b), p, 1, 1)

\* std::regex_match: the whole string is matched by the pattern
RegexMatch(s, p) == MatchFrom(s, p, 1, 1)

(***************************************************************************)
(* Paths are sequences of segments; an href is relative or absolute.       *)
(***************************************************************************)
Dirs == <<"sub1", "sub2", "sub3", "sub4">>
ItemFiles == <<"item1.json", "item2.json", "item3.json", "item4.json">>
CatalogFile == "catalog.json"

Rel(segs) == [abs |-> FALSE, segs |-> segs]
Abs(segs) == [abs |-> TRUE, segs |-> segs]

Dir(path) == SubSeq(path, 1, Len(path) - 1)

\* stac::handleRelativePath: an absolute href is kept, a relative one is
\* resolved against the directory of the hosting document
HandleRelativePath(srcPath, linkPath) ==
    IF linkPath.abs THEN linkPath.segs ELSE Dir(srcPath) \o linkPath.segs

(***************************************************************************)
(* JSON values of Item properties and of the properties filter:            *)
(* [t |-> type, v |-> payload], the payload a sequence of integers         *)
(* (character codes of a string, digits of a date, one number).  A float   *)
(* is held in units of 1/FloatScale.                                       *)
(***************************************************************************)
FloatScale == 4

Str(v) == [t |-> "string", v |-> v]
IntV(n) == [t |-> "number_integer", v |-> <<n>>]
UIntV(n) == [t |-> "number_unsigned", v |-> <<n>>]
FloatV(q) == [t |-> "number_float", v |-> <<q>>]
BoolV(b) == [t |-> "boolean", v |-> <<IF b THEN 1 ELSE 0>>]
NullV == [t |-> "null", v |-> <<>>]
ArrayV(items) == [t |-> "array", v |-> <<>>, items |-> items]

\* get<int>() converts numbers and booleans; get<uint64_t>() and
\* get<double>() convert numbers only
IsNumber(x) == x.t \in {"number_integer", "number_unsigned", "number_float", "boolean"}
IsStrictNumber(x) == x.t \in {"number_integer", "number_unsigned", "number_float"}

\* truncation of a float toward zero
Trunc(q) == IF q >= 0 THEN q \div FloatScale ELSE -((-q) \div FloatScale)

\* the mathematical integer a numeric JSON value converts to
AsInteger(x) == IF x.t = "number_float" THEN Trunc(x.v[1]) ELSE x.v[1]

\* get<int>(): every number of the model lies within the 32-bit range,
\* where the conversion keeps the integer
GetInt(x) == AsInteger(x)

\* get<uint64_t>(): a negative n wraps to 2^64 + n, written <<1, n>>;
\* a non-negative n stays n, written <<0, n>>
GetUInt64(x) == IF AsInteger(x) < 0 THEN <<1, AsInteger(x)>> ELSE <<0, AsInteger(x)>>

\* int value = get<double>(): the double is truncated to an int
GetDoubleAsInt(x) ==
    Trunc(IF x.t = "number_float" THEN x.v[1] ELSE x.v[1] * FloatScale)

\* std::string operator<= : lexicographic order
RECURSIVE LexLeq(_, _)
LexLeq(a, b) ==
    IF a = <<>> THEN TRUE
    ELSE IF b = <<>> THEN FALSE
    ELSE IF Head(a) < Head(b) THEN TRUE
    ELSE IF Head(a) > Head(b) THEN FALSE
    ELSE LexLeq(Tail(a), Tail(b))

\* matchProperty: "match", "nomatch", or "raise" (type_error / unsupported type)
MatchProperty(key, val, properties, type) ==
    LET item == properties[key] IN
    CASE type = "string" ->
            IF val.t # "string" THEN "raise"
            ELSE IF item.v # val.v THEN "nomatch" ELSE "match"
      [] type = "number_unsigned" ->
            IF ~IsStrictNumber(val) THEN "raise"
            ELSE IF GetUInt64(item) # GetUInt64(val) THEN "nomatch" ELSE "match"
      [] type = "number_integer" ->
            IF ~IsNumber(val) THEN "raise"
            ELSE IF GetInt(item) # GetInt(val) THEN "nomatch" ELSE "match"
      [] type = "number_float" ->
            IF ~IsStrictNumber(val) THEN "raise"
            ELSE IF GetDoubleAsInt(item) # GetDoubleAsInt(val) THEN "nomatch" ELSE "match"
      [] type = "boolean" ->
            IF val.t # "boolean" THEN "raise"
            ELSE IF item.v # val.v THEN "nomatch" ELSE "match"
      [] OTHER -> "raise"

(***************************************************************************)
(* Boxes and the spatial engine (pdal/util/Bounds.hpp, pdal/Polygon.hpp).  *)
(***************************************************************************)
Box(minx, miny, minz, maxx, maxy, maxz) ==
    [minx |-> minx, miny |-> miny, minz |-> minz,
     maxx |-> maxx, maxy |-> maxy, maxz |-> maxz]

Overlaps2d(a, b) ==
    /\ a.minx <= b.maxx /\ a.maxx >= b.minx
    /\ a.miny <= b.maxy /\ a.maxy >= b.miny

Overlaps3d(a, b) ==
    /\ Overlaps2d(a, b)
    /\ a.minz <= b.maxz /\ a.maxz >= b.minz

NoBounds == [empty |-> TRUE, is3d |-> FALSE, box |-> Box(0, 0, 0, 0, 0, 0)]

(***************************************************************************)
(* Driver inference.                                                       *)
(***************************************************************************)
CopcType == "application/vnd.laszip+copc"

\* Utils::iequals against the keys of the contentTypes table
Lower(s) ==
    CASE s = "APPLICATION/VND.LASZIP+COPC" -> CopcType
      [] s = "Application/vnd.laszip+copc" -> CopcType
      [] OTHER -> s

ContentTypeDriver(ct) == IF Lower(ct) = CopcType THEN "readers.copc" ELSE ""

\* StageFactory::inferReaderDriver: the driver registered for the file's extension
InferReaderDriver(dataUrl) ==
    LET file == dataUrl[Len(dataUrl)] IN
    CASE file \in {"alpha.laz", "beta.laz", "cloud.laz"} -> "readers.las"
      [] file \in {"alpha.copc.laz", "beta.copc.laz"} -> "readers.copc"
      [] OTHER -> ""

\* Item::extractDriverFromItem: [raise, driver, headed], headed TRUE iff
\* m_connector.headRequest(dataUrl) was called.  asset.head is what that
\* request answers: "raise", or the Content-Type header ("" when absent).
ExtractDriverFromItem(asset, m_path) ==
    IF "href" \notin asset.keys
    THEN [raise |-> TRUE, driver |-> "", headed |-> FALSE]
    ELSE
      LET dataUrl == HandleRelativePath(m_path, asset.href)
          byType == IF "type" \in asset.keys THEN ContentTypeDriver(asset.type) ELSE ""
          byUrl == InferReaderDriver(dataUrl)
      IN IF byType # "" THEN [raise |-> FALSE, driver |-> byType, headed |-> FALSE]
         ELSE IF byUrl # "" THEN [raise |-> FALSE, driver |-> byUrl, headed |-> FALSE]
         ELSE IF asset.head = "raise"
         THEN [raise |-> TRUE, driver |-> "", headed |-> TRUE]
         ELSE [raise |-> FALSE, driver |-> ContentTypeDriver(asset.head),
               headed |-> TRUE]

(***************************************************************************)
(* Item::filter (true = prune).  Result: "keep", "prune" or "raise", with  *)
(* the driver and asset path the asset loop left in the Item.              *)
(***************************************************************************)
\* validateForFilter: TRUE iff it throws
ValidateForFilterRaises(json) ==
    \/ "id" \notin json.keys
    \/ "assets" \notin json.keys
    \/ "properties" \notin json.keys
    \/ ("geometry" \notin json.keys \/ "bbox" \notin json.keys)
    \/ /\ "datetime" \notin DOMAIN json.properties
       /\ "start_datetime" \notin DOMAIN json.properties
       /\ "end_datetime" \notin DOMAIN json.properties

\* the loop over filters.assetNames: every name present in assets overwrites
\* m_driver and m_assetPath
RECURSIVE AssetLoop(_, _, _, _, _)
AssetLoop(json, m_path, names, i, st) ==
    IF i > Len(names) \/ st.raise THEN st
    ELSE IF names[i] \notin DOMAIN json.assets
         THEN AssetLoop(json, m_path, names, i + 1, st)
    ELSE LET asset == json.assets[names[i]]
             e == ExtractDriverFromItem(asset, m_path)
         IN IF e.raise
            THEN [raise |-> TRUE, driver |-> "", assetPath |-> <<>>]
            ELSE AssetLoop(json, m_path, names, i + 1,
                    [raise |-> FALSE, driver |-> e.driver,
                     assetPath |-> HandleRelativePath(m_path, asset.href)])

\* id filter that searches instead of matching in full
IdPrunedSearch(itemId, ids) ==
    ids # <<>> /\ ~\E k \in 1..Len(ids) : RegexSearch(itemId, ids[k])

\* id filter: TRUE iff the Item is pruned
IdPruned(itemId, ids) ==
    ids # <<>> /\ ~\E k \in 1..Len(ids) : RegexMatch(itemId, ids[k])

\* collection filter that lets an Item without a collection field through
CollectionPrunedUndeclaredPasses(json, collections) ==
    /\ collections # <<>>
    /\ "collection" \in json.keys
    /\ ~\E k \in 1..Len(collections) : RegexMatch(json.collection, collections[k])

\* collection filter: TRUE iff the Item is pruned
CollectionPruned(json, collections) ==
    /\ collections # <<>>
    /\ \/ "collection" \notin json.keys
       \/ ~\E k \in 1..Len(collections) : RegexMatch(json.collection, collections[k])

\* date filter: "keep", "prune" or "raise"
DateFilter(properties, dates) ==
    IF dates = <<>> THEN "keep"
    ELSE IF "datetime" \in DOMAIN properties /\ properties["datetime"].t # "null"
    THEN LET stacDate == properties["datetime"].v
             \* ranges are visited in order; a range of the wrong size throws
             bad == \E k \in 1..Len(dates) : Len(dates[k]) # 2
             hit == \E k \in 1..Len(dates) :
                        /\ Len(dates[k]) = 2
                        /\ LexLeq(dates[k][1], stacDate)
                        /\ LexLeq(stacDate, dates[k][2])
         IN IF properties["datetime"].t # "string" \/ bad THEN "raise"
            ELSE IF hit THEN "keep" ELSE "prune"
    ELSE IF "start_datetime" \in DOMAIN properties /\ "end_datetime" \in DOMAIN properties
    THEN LET s == properties["start_datetime"].v
             e == properties["end_datetime"].v
             bad == \E k \in 1..Len(dates) : Len(dates[k]) # 2
             hit == \E k \in 1..Len(dates) :
                        /\ Len(dates[k]) = 2
                        /\ LET umin == dates[k][1]
                               umax == dates[k][2]
                           IN \/ LexLeq(s, umin) /\ LexLeq(umin, e)
                              \/ LexLeq(s, umax) /\ LexLeq(umax, e)
                              \/ LexLeq(umin, s) /\ LexLeq(e, umax)
         IN IF properties["start_datetime"].t # "string"
               \/ properties["end_datetime"].t # "string" \/ bad THEN "raise"
            ELSE IF hit THEN "keep" ELSE "prune"
    ELSE "keep"

\* a properties filter that prunes an Item lacking the key
PropertyKeyMissingPrunes(key, want, properties) ==
    IF key \notin DOMAIN properties THEN "prune"
    ELSE LET r == MatchProperty(key, want, properties, properties[key].t)
         IN IF r = "raise" THEN "raise"
            ELSE IF r = "match" THEN "keep" ELSE "prune"

\* one key of the properties filter: "keep", "prune" or "raise"
PropertyKey(key, want, properties) ==
    IF key \notin DOMAIN properties THEN "raise"
    ELSE LET type == properties[key].t IN
         IF want.t = "array"
         THEN LET rs == [k \in 1..Len(want.items) |->
                            MatchProperty(key, want.items[k], properties, type)]
              IN IF \E k \in 1..Len(rs) : rs[k] = "raise" THEN "raise"
                 ELSE IF \E k \in 1..Len(rs) : rs[k] = "match" THEN "keep"
                 ELSE "prune"
         ELSE LET r == MatchProperty(key, want, properties, type)
              IN IF r = "raise" THEN "raise"
                 ELSE IF r = "match" THEN "keep" ELSE "prune"

\* the filter's keys are visited in key order; the first key that prunes or
\* throws ends the loop
RECURSIVE PropertyLoop(_, _, _)
PropertyLoop(keys, want, properties) ==
    IF keys = <<>> THEN "keep"
    ELSE LET r == PropertyKey(Head(keys), want[Head(keys)], properties)
         IN IF r # "keep" THEN r ELSE PropertyLoop(Tail(keys), want, properties)

\* spatial filter: "keep", "prune" or "raise"
BoundsFilter(json, bounds) ==
    IF bounds.empty THEN "keep"
    ELSE IF "geometry" \in json.keys
    THEN IF ~json.geometry.valid THEN "raise"
         ELSE IF bounds.is3d
              THEN IF Overlaps3d(bounds.box, json.geometry.box) THEN "keep" ELSE "prune"
              ELSE IF Overlaps3d([bounds.box EXCEPT !.minz = 0, !.maxz = 0],
                                 json.geometry.box) THEN "keep" ELSE "prune"
    ELSE IF "bbox" \in json.keys
    THEN IF Len(json.bbox) # 4 \/ Len(json.bbox) # 6 THEN "raise"
         ELSE "keep"
    ELSE "keep"

\* Item::filter with the properties predicate moved ahead of the id predicate
ItemFilterPropertiesFirst(json, m_path, filters) ==
    LET none == [res |-> "raise", driver |-> "", assetPath |-> <<>>] IN
    IF ValidateForFilterRaises(json) THEN none
    ELSE
      LET a == AssetLoop(json, m_path, filters.assetNames, 1,
                    [raise |-> FALSE, driver |-> "", assetPath |-> <<>>])
          out(r) == [res |-> r, driver |-> a.driver, assetPath |-> a.assetPath]
          p == PropertyLoop(filters.propertyKeys, filters.properties,
                            json.properties)
      IN IF a.raise THEN none
         ELSE IF a.driver = "" THEN out("prune")
         ELSE IF p # "keep" THEN out(p)
         ELSE IF IdPruned(json.id, filters.ids) THEN out("prune")
         ELSE IF CollectionPruned(json, filters.collections) THEN out("prune")
         ELSE LET d == DateFilter(json.properties, filters.dates) IN
              IF d # "keep" THEN out(d)
         ELSE out(BoundsFilter(json, filters.bounds))

ItemFilter(json, m_path, filters) ==
    LET none == [res |-> "raise", driver |-> "", assetPath |-> <<>>] IN
    IF ValidateForFilterRaises(json) THEN none
    ELSE
      LET a == AssetLoop(json, m_path, filters.assetNames, 1,
                    [raise |-> FALSE, driver |-> "", assetPath |-> <<>>])
          out(r) == [res |-> r, driver |-> a.driver, assetPath |-> a.assetPath]
      IN IF a.raise THEN none
         ELSE IF a.driver = "" THEN out("prune")
         ELSE IF IdPruned(json.id, filters.ids) THEN out("prune")
         ELSE IF CollectionPruned(json, filters.collections) THEN out("prune")
         ELSE LET d == DateFilter(json.properties, filters.dates) IN
              IF d # "keep" THEN out(d)
         ELSE LET p == PropertyLoop(filters.propertyKeys, filters.properties,
                                    json.properties) IN
              IF p # "keep" THEN out(p)
         ELSE out(BoundsFilter(json, filters.bounds))

(***************************************************************************)
(* Item::init and the Item state it resolves.                              *)
(***************************************************************************)
NoArgs == [kind |-> "null", entries |-> <<>>]

\* Item::handleReaderArgs: [raise, args], args a function driver -> options.
\* rawReaderArgs is an array when the duplicate test runs, so
\* rawReaderArgs.contains(driver) is false and a later entry of the same
\* driver replaces the earlier one.
RECURSIVE ReaderArgsLoop(_, _, _)
ReaderArgsLoop(entries, i, acc) ==
    IF i > Len(entries) THEN [raise |-> FALSE, args |-> acc]
    ELSE IF ~entries[i].hasType THEN [raise |-> TRUE, args |-> acc]
    ELSE ReaderArgsLoop(entries, i + 1,
            [d \in (DOMAIN acc) \cup {entries[i].type} |->
                IF d = entries[i].type THEN entries[i].args ELSE acc[d]])

HandleReaderArgs(rawReaderArgs) ==
    IF \E i \in 1..Len(rawReaderArgs.entries) : ~rawReaderArgs.entries[i].isObject
    THEN [raise |-> TRUE, args |-> <<>>]
    ELSE ReaderArgsLoop(rawReaderArgs.entries, 1, <<>>)

\* Item::setReaderOptions
SetReaderOptions(readerArgs, driver) ==
    IF driver \in DOMAIN readerArgs THEN readerArgs[driver] ELSE <<>>

NoItem ==
    [id |-> <<>>, path |-> <<>>, driver |-> "", assetPath |-> <<>>,
     options |-> [args |-> <<>>, filename |-> <<>>]]

\* Item::init that throws where the filter prunes
ItemInitRejectionRaises(json, m_path, filters, rawReaderArgs, m_validate) ==
    LET f == ItemFilter(json, m_path, filters)
        ra == HandleReaderArgs(rawReaderArgs)
    IN IF f.res \in {"raise", "prune"}
       THEN [res |-> "raise", item |-> NoItem, fetched |-> <<>>]
       ELSE IF m_validate /\ ~json.schemaOk
       THEN [res |-> "raise", item |-> NoItem, fetched |-> <<>>]
       ELSE IF ra.raise THEN [res |-> "raise", item |-> NoItem, fetched |-> <<>>]
       ELSE [res |-> "accepted",
             item |-> [id |-> json.id, path |-> m_path, driver |-> f.driver,
                       assetPath |-> f.assetPath,
                       options |-> [args |-> SetReaderOptions(ra.args, f.driver),
                                    filename |-> f.assetPath]],
             fetched |-> <<>>]

\* the schema documents validation fetches
ItemSchemaUrl == "item-spec/item.json"
CatalogSchemaUrl == "catalog-spec/catalog.json"
ExtUrls == <<"ext1.json", "ext2.json", "ext3.json", "ext4.json">>

\* the loop of Item::validate over stac_extensions: each schema is fetched
\* and the document validated against it; the first failure throws
RECURSIVE ValidateExtensions(_, _, _)
ValidateExtensions(exts, k, fetched) ==
    IF k > Len(exts) THEN [raise |-> FALSE, fetched |-> fetched]
    ELSE IF ~exts[k].ok THEN [raise |-> TRUE, fetched |-> Append(fetched, ExtUrls[k])]
    ELSE ValidateExtensions(exts, k + 1, Append(fetched, ExtUrls[k]))

\* Item::validate: [raise, fetched], fetched the schema URLs handed to
\* m_connector.getJson, in order
ItemValidate(json) ==
    IF ~json.schemaOk THEN [raise |-> TRUE, fetched |-> <<ItemSchemaUrl>>]
    ELSE IF "stac_extensions" \in json.keys
    THEN ValidateExtensions(json.stac_extensions, 1, <<ItemSchemaUrl>>)
    ELSE [raise |-> FALSE, fetched |-> <<ItemSchemaUrl>>]

\* Catalog::validate: [raise, fetched]
CatalogValidate(json) ==
    [raise |-> ~json.schemaOk, fetched |-> <<CatalogSchemaUrl>>]

\* Item::init that validates before it filters
ItemInitValidatesFirst(json, m_path, filters, rawReaderArgs, m_validate) ==
    LET f == ItemFilter(json, m_path, filters)
        ra == HandleReaderArgs(rawReaderArgs)
        v == ItemValidate(json)
        got == IF m_validate THEN v.fetched ELSE <<>>
    IN IF m_validate /\ v.raise
       THEN [res |-> "raise", item |-> NoItem, fetched |-> got]
       ELSE IF f.res = "raise" THEN [res |-> "raise", item |-> NoItem, fetched |-> got]
       ELSE IF f.res = "prune" THEN [res |-> "rejected", item |-> NoItem, fetched |-> got]
       ELSE IF ra.raise THEN [res |-> "raise", item |-> NoItem, fetched |-> got]
       ELSE [res |-> "accepted",
             item |-> [id |-> json.id, path |-> m_path, driver |-> f.driver,
                       assetPath |-> f.assetPath,
                       options |-> [args |-> SetReaderOptions(ra.args, f.driver),
                                    filename |-> f.assetPath]],
             fetched |-> got]

\* Item::init: "accepted", "rejected" or "raise", the resolved Item, and the
\* schema documents fetched on the way
ItemInit(json, m_path, filters, rawReaderArgs, m_validate) ==
    LET f == ItemFilter(json, m_path, filters)
        ra == HandleReaderArgs(rawReaderArgs)
        v == ItemValidate(json)
        got == IF m_validate THEN v.fetched ELSE <<>>
    IN IF f.res = "raise" THEN [res |-> "raise", item |-> NoItem, fetched |-> <<>>]
       ELSE IF f.res = "prune"
       THEN [res |-> "rejected", item |-> NoItem, fetched |-> <<>>]
       ELSE IF m_validate /\ v.raise
       THEN [res |-> "raise", item |-> NoItem, fetched |-> got]
       ELSE IF ra.raise THEN [res |-> "raise", item |-> NoItem, fetched |-> got]
       ELSE [res |-> "accepted",
             item |-> [id |-> json.id, path |-> m_path, driver |-> f.driver,
                       assetPath |-> f.assetPath,
                       options |-> [args |-> SetReaderOptions(ra.args, f.driver),
                                    filename |-> f.assetPath]],
             fetched |-> got]

\* a copy constructor that also leaves m_readerOptions default-constructed
ItemCopyDropsOptions(item) ==
    [item EXCEPT !.assetPath = <<>>, !.options = [args |-> <<>>, filename |-> <<>>]]

\* Item::Item(const Item&): m_json, m_path, m_driver, m_schemaUrls and
\* m_readerOptions are copied; m_assetPath is left default-constructed
ItemCopy(item) == [item EXCEPT !.assetPath = <<>>]

(***************************************************************************)
(* The documents behind the connector: a chain of catalogs, depth 0 (the   *)
(* root) to MaxDepth, each linking items and the next catalog.  A world    *)
(* w fixes what each path serves and which filters are configured.         *)
(***************************************************************************)
Geometry == [valid |-> TRUE, box |-> Box(0, 0, 0, 1, 1, 0)]

ItemDoc(id, file) ==
    [keys |-> {"id", "assets", "properties", "geometry", "bbox"},
     id |-> id,
     assets |-> ("data" :> [keys |-> {"href", "type"}, href |-> Rel(<<file>>),
                            type |-> CopcType, head |-> ""]),
     properties |-> ("datetime" :> Str(<<2, 0, 2, 2>>)),
     collection |-> <<>>,
     geometry |-> Geometry,
     bbox |-> <<0, 0, 1, 1>>,
     schemaOk |-> TRUE]

AlphaDoc == ItemDoc(Alpha, "alpha.copc.laz")
BetaDoc == ItemDoc(Beta, "beta.copc.laz")
\* an Item document without the assets key
BrokenDoc == [ItemDoc(Gamma, "gamma.copc.laz") EXCEPT !.keys = @ \ {"assets"}]

\* Item documents that carry the property pc:type
Lidar == Str(<<108, 105, 100, 97, 114>>)
Sonar == Str(<<115, 111, 110, 97, 114>>)
LidarDoc == [AlphaDoc EXCEPT !.properties = @ @@ ("pc:type" :> Lidar)]
SonarDoc == [BetaDoc EXCEPT !.properties = @ @@ ("pc:type" :> Sonar)]

CatPath(d) == SubSeq(Dirs, 1, d) \o <<CatalogFile>>
ItemPath(d, k) == SubSeq(Dirs, 1, d) \o <<ItemFiles[k]>>
Depths == 0..MaxDepth
CatPaths == {CatPath(d) : d \in Depths}
DepthOf(path) == Len(path) - 1

\* what the k-th item link of the catalog at depth d serves
ItemKinds(w, d) ==
    IF d = 0 THEN w.rootKinds
    ELSE IF d = 1 THEN <<"alpha", "beta">>
    ELSE <<"alpha", "missing">>

ItemPaths == {ItemPath(d, k) : d \in Depths, k \in 1..Len(ItemFiles)}
LinkPaths == CatPaths \cup ItemPaths

\* the rel of the link from the catalog at depth d to the one below it
ChildRel(d) == IF d % 2 = 0 THEN "catalog" ELSE "collection"

Link(rel, href) == [keys |-> {"rel", "href"}, rel |-> rel, href |-> href]

CatalogLinks(w, d) ==
    [k \in 1..Len(ItemKinds(w, d)) |-> Link("item", Rel(<<ItemFiles[k]>>))]
    \o (IF d < MaxDepth
        THEN <<Link(ChildRel(d), Rel(<<Dirs[d + 1], CatalogFile>>))>> ELSE <<>>)
    \o (IF d = 0 THEN <<Link("self", Abs(CatPath(0)))>>
        ELSE IF d = 1 /\ w.sub = "badlink"
        THEN <<[keys |-> {"rel"}, rel |-> "item", href |-> Rel(<<>>)]>>
        ELSE <<>>)

CatalogDoc(w, d) ==
    [id |-> IF d = 0 THEN RootId ELSE IF d = 1 /\ w.sub = "other" THEN OtherId ELSE SubId,
     links |-> CatalogLinks(w, d),
     schemaOk |-> TRUE]

\* Connector::getJson: [raise, json]
GetJson(w, path) ==
    LET d == DepthOf(path)
        file == path[Len(path)]
    IN IF file = CatalogFile
       THEN IF d = 1 /\ w.sub = "missing"
            THEN [raise |-> TRUE, json |-> CatalogDoc(w, d)]
            ELSE [raise |-> FALSE, json |-> CatalogDoc(w, d)]
       ELSE LET k == CHOOSE k \in 1..Len(ItemFiles) : ItemFiles[k] = file
                kind == ItemKinds(w, d)[k]
            IN CASE kind = "alpha" -> [raise |-> FALSE, json |-> AlphaDoc]
                 [] kind = "beta" -> [raise |-> FALSE, json |-> BetaDoc]
                 [] kind = "broken" -> [raise |-> FALSE, json |-> BrokenDoc]
                 [] kind = "lidar" -> [raise |-> FALSE, json |-> LidarDoc]
                 [] kind = "sonar" -> [raise |-> FALSE, json |-> SonarDoc]
                 [] OTHER -> [raise |-> TRUE, json |-> BrokenDoc]

ItemFilters(ids) ==
    [ids |-> ids, collections |-> <<>>, dates |-> <<>>,
     properties |-> <<>>, propertyKeys |-> <<>>, bounds |-> NoBounds,
     assetNames |-> <<"data">>]

\* the Filters handed to Catalog::init: catalog id patterns and the Item filters
FiltersOf(w) ==
    CASE w.filt = "none" -> [ids |-> <<>>, itemFilters |-> ItemFilters(<<>>)]
      [] w.filt = "items" -> [ids |-> <<>>, itemFilters |-> ItemFilters(<<PatA>>)]
      [] w.filt = "props" ->
            [ids |-> <<>>,
             itemFilters |-> [ItemFilters(<<>>) EXCEPT
                                 !.properties = ("pc:type" :> Lidar),
                                 !.propertyKeys = <<"pc:type">>]]
      [] OTHER -> [ids |-> <<PatS>>, itemFilters |-> ItemFilters(<<PatA>>)]

\* the item links of the root: n links of which k fail (missing: the fetch
\* raises; broken: Item::init raises), for k = 0, 1, n
RootProfiles ==
    {<<"alpha", "beta">>, <<"missing", "beta">>, <<"alpha", "broken">>,
     <<"missing", "broken">>, <<"alpha", "missing", "beta">>}

Worlds ==
    {w \in [rootKinds : RootProfiles,
            sub : {"ok", "other", "missing", "badlink"},
            filt : {"none", "items", "both"},
            threads : 1..MaxThreads,
            validate : {FALSE}] :
        /\ w.rootKinds \notin {<<"alpha", "beta">>, <<"missing", "broken">>}
              => w.sub = "missing"
        /\ w.sub = "other" => w.filt = "both"
        /\ w.sub \in {"missing", "badlink"} => w.filt = "none"}

(***************************************************************************)
(* The Catalog walker on the worker pool.                                  *)
(***************************************************************************)
VARIABLES
    world,      \* the documents served and the configuration of this resolution
    nodes,      \* per Catalog node: status, m_itemList, m_subCatalogs, m_errors
    mutex,      \* per Catalog node: the worker holding m_mutex, 0 when free
    queue,      \* the pool's task queue (tasks added and not yet started)
    workers,    \* per pool thread: what it is executing
    main,       \* the calling thread, inside the root's Catalog::init
    processed,  \* per link path: how many tasks for it ran to completion
    call        \* one call of Item::init on its own: its arguments and its result

vars == <<world, nodes, mutex, queue, workers, main, processed, call>>

NoCall == [id |-> <<>>, ids |-> <<>>, done |-> FALSE, res |-> ""]

RootPath == CatPath(0)
Threads == 1..MaxThreads

NoErr == [path |-> <<>>, msg |-> ""]
NoTask == [node |-> <<>>, linkType |-> "", absLinkPath |-> <<>>]
\* the three vectors of a node as a push_back finds them
NoSeen == [itemList |-> <<>>, subCatalogs |-> <<>>, errors |-> <<>>]
Seen(node) == [itemList |-> node.itemList, subCatalogs |-> node.subCatalogs,
               errors |-> node.errors]

Idle == [pc |-> "idle", task |-> NoTask, idx |-> 0,
         out |-> [kind |-> "", item |-> NoItem, err |-> NoErr],
         seen |-> NoSeen]

FreshNode == [status |-> "Unvisited", itemList |-> <<>>,
              subCatalogs |-> <<>>, errors |-> <<>>]

\* node id filter that searches instead of matching in full
CatalogFilterSearch(json, filters, m_root) ==
    \/ filters.ids = <<>>
    \/ m_root
    \/ \E k \in 1..Len(filters.ids) : RegexSearch(json.id, filters.ids[k])

\* Catalog::filter: TRUE iff the node is walked
CatalogFilter(json, filters, m_root) ==
    \/ filters.ids = <<>>
    \/ m_root
    \/ \E k \in 1..Len(filters.ids) : RegexMatch(json.id, filters.ids[k])

\* ThreadPool::add on the unbounded queue
PoolAdd(q, task) == Append(q, task)

\* ThreadPool::await returns: nothing queued, nothing running
PoolDrained == queue = <<>> /\ \A w \in Threads : workers[w].pc = "idle"

\* a lambda that treats a self link as a link to a child catalog
TaskForFollowsSelf(node, link) ==
    [node |-> node,
     linkType |-> IF link.rel = "self" THEN "catalog" ELSE link.rel,
     absLinkPath |-> HandleRelativePath(node, link.href)]

\* the lambda handed to m_pool.add for one link
TaskFor(node, link) ==
    [node |-> node, linkType |-> link.rel,
     absLinkPath |-> HandleRelativePath(node, link.href)]

WellFormed(link) == "rel" \in link.keys /\ "href" \in link.keys

Running == main.pc \notin {"crashed", "raised"}

\* the root constructed, the pool started, init entered, no link visited yet
WalkerInit ==
    /\ nodes = [p \in CatPaths |->
                  IF p = RootPath THEN [FreshNode EXCEPT !.status = "FetchingChildren"]
                  ELSE FreshNode]
    /\ mutex = [p \in CatPaths |-> 0]
    /\ queue = <<>>
    /\ workers = [w \in Threads |-> Idle]
    /\ main = [pc |-> "enqueue", idx |-> 1]
    /\ processed = [p \in LinkPaths |-> 0]

Init ==
    /\ world \in Worlds
    /\ WalkerInit
    /\ call = NoCall

\* the root's Catalog::init, link loop: one m_pool.add per link
MainEnqueue ==
    /\ main.pc = "enqueue"
    /\ LET links == GetJson(world, RootPath).json.links
           link == links[main.idx]
       IN IF ~WellFormed(link)
          THEN /\ main' = [main EXCEPT !.pc = "raised"]
               /\ nodes' = [nodes EXCEPT ![RootPath].status = "Failed"]
               /\ UNCHANGED queue
          ELSE /\ queue' = PoolAdd(queue, TaskFor(RootPath, link))
               /\ main' = IF main.idx = Len(links)
                          THEN [main EXCEPT !.pc = "await"]
                          ELSE [main EXCEPT !.idx = @ + 1]
               /\ UNCHANGED nodes
    /\ UNCHANGED <<call, world, mutex, workers, processed>>

\* the root goes on to handleNested without waiting for the pool
MainAwaitNoBarrier ==
    /\ main.pc = "await"
    /\ main' = [main EXCEPT !.pc = "nested"]
    /\ UNCHANGED <<call, world, nodes, mutex, queue, workers, processed>>

\* isRoot: m_pool.await(); m_pool.join();
MainAwait ==
    /\ main.pc = "await"
    /\ PoolDrained
    /\ main' = [main EXCEPT !.pc = "nested"]
    /\ UNCHANGED <<call, world, nodes, mutex, queue, workers, processed>>

\* handleNested that carries the children's errors up but not their items
RECURSIVE SpliceErrorsOnly(_, _, _)
SpliceErrorsOnly(node, subs, ns) ==
    IF subs = <<>> THEN node
    ELSE SpliceErrorsOnly([node EXCEPT !.errors = @ \o ns[Head(subs)].errors],
                          Tail(subs), ns)

\* handleNested over a list of retained children: their items and errors
\* are appended to the node's own lists
RECURSIVE Splice(_, _, _)
Splice(node, subs, ns) ==
    IF subs = <<>> THEN node
    ELSE Splice([node EXCEPT
                    !.itemList = @ \o [i \in 1..Len(ns[Head(subs)].itemList) |->
                                          ItemCopy(ns[Head(subs)].itemList[i])],
                    !.errors = @ \o ns[Head(subs)].errors],
                Tail(subs), ns)

\* Catalog::handleNested, then init returns true
MainNested ==
    /\ main.pc = "nested"
    /\ nodes' = [nodes EXCEPT ![RootPath] =
                    [Splice(nodes[RootPath], nodes[RootPath].subCatalogs, nodes)
                        EXCEPT !.status = "Aggregated"]]
    /\ main' = [main EXCEPT !.pc = "done"]
    /\ UNCHANGED <<call, world, mutex, queue, workers, processed>>

ToLock(t, kind, item, msg) ==
    [pc |-> "lock", task |-> t, idx |-> 0,
     out |-> [kind |-> kind, item |-> item,
              err |-> IF kind = "error" THEN [path |-> t.absLinkPath, msg |-> msg]
                      ELSE NoErr],
     seen |-> NoSeen]

\* a pool thread takes the next task and runs the lambda up to the point
\* where it needs the node's mutex (or to its end, when it needs none)
TaskStart(w) ==
    /\ Running
    /\ w \in 1..world.threads
    /\ workers[w].pc = "idle"
    /\ queue # <<>>
    /\ LET t == Head(queue)
           g == GetJson(world, t.absLinkPath)
           filters == FiltersOf(world)
           finished == /\ workers' = workers
                       /\ processed' = [processed EXCEPT ![t.absLinkPath] = @ + 1]
           goes(st) == /\ workers' = [workers EXCEPT ![w] = st]
                       /\ UNCHANGED processed
       IN /\ queue' = Tail(queue)
          /\ IF t.linkType = "item"
             THEN /\ UNCHANGED nodes
                  /\ IF g.raise THEN goes(ToLock(t, "error", NoItem, "fetch"))
                     ELSE LET r == ItemInit(g.json, t.absLinkPath, filters.itemFilters,
                                            NoArgs, world.validate)
                          IN CASE r.res = "raise" -> goes(ToLock(t, "error", NoItem, "init"))
                               [] r.res = "accepted" -> goes(ToLock(t, "item", r.item, ""))
                               [] OTHER -> finished
             ELSE IF t.linkType \in {"catalog", "collection"}
             THEN IF g.raise
                  THEN /\ UNCHANGED nodes
                       /\ goes(ToLock(t, "error", NoItem, "fetch"))
                  ELSE IF ~CatalogFilter(g.json, filters, FALSE)
                  THEN /\ nodes' = [nodes EXCEPT ![t.absLinkPath].status = "Rejected"]
                       /\ finished
                  ELSE IF world.validate /\ ~g.json.schemaOk
                  THEN /\ nodes' = [nodes EXCEPT ![t.absLinkPath].status = "Failed"]
                       /\ goes(ToLock(t, "error", NoItem, "schema"))
                  ELSE /\ nodes' = [nodes EXCEPT
                                       ![t.absLinkPath].status = "FetchingChildren"]
                       /\ IF g.json.links = <<>>
                          THEN goes(ToLock(t, "sub", NoItem, ""))
                          ELSE goes([ToLock(t, "sub", NoItem, "") EXCEPT
                                        !.pc = "enqueue", !.idx = 1])
             ELSE /\ UNCHANGED nodes
                  /\ finished
    /\ UNCHANGED <<call, world, mutex, main>>

\* a child's init that runs handleNested on itself before it returns
InitEnqueueNested(w) ==
    /\ Running
    /\ workers[w].pc = "enqueue"
    /\ LET t == workers[w].task
           child == t.absLinkPath
           links == GetJson(world, child).json.links
           link == links[workers[w].idx]
       IN IF ~WellFormed(link)
          THEN /\ nodes' = [nodes EXCEPT ![child].status = "Failed"]
               /\ workers' = [workers EXCEPT ![w] = ToLock(t, "error", NoItem, "link")]
               /\ UNCHANGED queue
          ELSE /\ queue' = PoolAdd(queue, TaskFor(child, link))
               /\ workers' = [workers EXCEPT ![w] =
                                IF workers[w].idx = Len(links)
                                THEN [@ EXCEPT !.pc = "lock"]
                                ELSE [@ EXCEPT !.idx = @ + 1]]
               /\ nodes' = IF workers[w].idx = Len(links)
                           THEN [nodes EXCEPT ![child] =
                                   [Splice(@, @.subCatalogs, nodes)
                                       EXCEPT !.status = "Aggregated"]]
                           ELSE nodes
    /\ UNCHANGED <<call, world, mutex, main, processed>>

\* a child's Catalog::init, link loop, run by the pool thread that fetched
\* the child: one m_pool.add per link; a link without rel or href throws,
\* which destroys the child and is caught by the parent's task
InitEnqueue(w) ==
    /\ Running
    /\ workers[w].pc = "enqueue"
    /\ LET t == workers[w].task
           child == t.absLinkPath
           links == GetJson(world, child).json.links
           link == links[workers[w].idx]
       IN IF ~WellFormed(link)
          THEN /\ nodes' = [nodes EXCEPT ![child].status = "Failed"]
               /\ workers' = [workers EXCEPT ![w] = ToLock(t, "error", NoItem, "link")]
               /\ UNCHANGED queue
          ELSE /\ queue' = PoolAdd(queue, TaskFor(child, link))
               /\ workers' = [workers EXCEPT ![w] =
                                IF workers[w].idx = Len(links)
                                THEN [@ EXCEPT !.pc = "lock"]
                                ELSE [@ EXCEPT !.idx = @ + 1]]
               /\ UNCHANGED nodes
    /\ UNCHANGED <<call, world, mutex, main, processed>>

\* a task starts its push_back without taking the node's mutex
LockNoMutex(w) ==
    /\ Running
    /\ workers[w].pc = "lock"
    /\ workers' = [workers EXCEPT ![w].pc = "write",
                                  ![w].seen = Seen(nodes[workers[w].task.node])]
    /\ UNCHANGED <<call, world, nodes, mutex, queue, main, processed>>

\* std::lock_guard<std::mutex> lock(m_mutex) of the task's node; the
\* push_back that follows starts from the vectors as it finds them
Lock(w) ==
    /\ Running
    /\ workers[w].pc = "lock"
    /\ mutex[workers[w].task.node] = 0
    /\ mutex' = [mutex EXCEPT ![workers[w].task.node] = w]
    /\ workers' = [workers EXCEPT ![w].pc = "write",
                                  ![w].seen = Seen(nodes[workers[w].task.node])]
    /\ UNCHANGED <<call, world, nodes, queue, main, processed>>

\* the catch blocks record nothing
PushSwallowsError(node, t, out) ==
    CASE out.kind = "item" -> [node EXCEPT !.itemList = Append(@, ItemCopy(out.item))]
      [] out.kind = "sub" -> [node EXCEPT !.subCatalogs = Append(@, t.absLinkPath)]
      [] OTHER -> node

\* the push_back under the lock: an Item copy, the retained child or a StacError
Push(node, t, out) ==
    CASE out.kind = "item" -> [node EXCEPT !.itemList = Append(@, ItemCopy(out.item))]
      [] out.kind = "sub" -> [node EXCEPT !.subCatalogs = Append(@, t.absLinkPath)]
      [] OTHER -> [node EXCEPT !.errors = Append(@, out.err)]

\* the push_back completes on the vectors it started from; end of the
\* lock's scope, end of the task
Write(w) ==
    /\ Running
    /\ workers[w].pc = "write"
    /\ LET t == workers[w].task
           seen == workers[w].seen
       IN /\ nodes' = [nodes EXCEPT ![t.node] =
                          Push([@ EXCEPT !.itemList = seen.itemList,
                                         !.subCatalogs = seen.subCatalogs,
                                         !.errors = seen.errors],
                               t, workers[w].out)]
          /\ mutex' = [mutex EXCEPT ![t.node] = IF @ = w THEN 0 ELSE @]
          /\ processed' = [processed EXCEPT ![t.absLinkPath] = @ + 1]
    /\ workers' = [workers EXCEPT ![w] = Idle]
    /\ UNCHANGED <<call, world, queue, main>>

\* a task whose node was destroyed dereferences a dangling this
Dangling(w) ==
    \/ /\ workers[w].pc \in {"lock", "write"}
       /\ nodes[workers[w].task.node].status = "Failed"
    \/ /\ workers[w].pc = "idle"
       /\ w \in 1..world.threads
       /\ queue # <<>>
       /\ nodes[Head(queue).node].status = "Failed"

\* one outcome of the dangling access: the process dies, and with it the
\* pool, the nodes and the calling thread
Crash ==
    /\ Running
    /\ \E w \in Threads : Dangling(w)
    /\ main' = [pc |-> "crashed", idx |-> 0]
    /\ nodes' = [p \in CatPaths |-> FreshNode]
    /\ mutex' = [p \in CatPaths |-> 0]
    /\ queue' = <<>>
    /\ workers' = [w \in Threads |-> Idle]
    /\ processed' = [p \in LinkPaths |-> 0]
    /\ UNCHANGED <<call, world>>

Next ==
    \/ MainEnqueue
    \/ MainAwait
    \/ MainNested
    \/ \E w \in Threads : TaskStart(w)
    \/ \E w \in Threads : InitEnqueue(w)
    \/ \E w \in Threads : Lock(w)
    \/ \E w \in Threads : Write(w)
    \/ Crash

Spec == Init /\ [][Next]_vars

\* the scheduling the pool and the calling thread provide: the calling thread
\* keeps running, and a pool thread that can take a task, go on inside one or
\* take a free mutex eventually does.  Nothing forces a dangling access to
\* bring the process down.
FairSpec ==
    /\ Spec
    /\ WF_vars(MainEnqueue)
    /\ WF_vars(MainAwait)
    /\ WF_vars(MainNested)
    /\ \A w \in Threads :
          /\ WF_vars(TaskStart(w))
          /\ WF_vars(InitEnqueue(w))
          /\ WF_vars(Lock(w))
          /\ WF_vars(Write(w))

(***************************************************************************)
(* Item::init on its own: one call, its id and id patterns drawn from      *)
(* bounded sets, the walker left where construction put it.                *)
(***************************************************************************)
\* longest list of id patterns explored
MaxIds == 2

PatBeta == <<"B", "e", "t", "a">>
IdPool == {Alpha, Beta, Gamma, SubId, OtherId}
PatPool == {PatA, PatS, PatEt, PatBeta}
PatSeqs == UNION {[1..n -> PatPool] : n \in 0..MaxIds}

QuietWorld ==
    [rootKinds |-> <<"alpha", "beta">>, sub |-> "ok", filt |-> "none",
     threads |-> 1, validate |-> FALSE]

InitIdFilter ==
    /\ world = QuietWorld
    /\ WalkerInit
    /\ call \in [id : IdPool, ids : PatSeqs, done : {FALSE}, res : {""}]

\* Item item(json, path, ...); item.init(filters, rawReaderArgs, schemaUrls)
\* on a well-formed Item document with the id and the id patterns of the call
CallItemInit ==
    /\ ~call.done
    /\ call' = [call EXCEPT
                   !.done = TRUE,
                   !.res = ItemInit(ItemDoc(call.id, "cloud.laz"), ItemPath(0, 1),
                                    ItemFilters(call.ids), NoArgs, FALSE).res]
    /\ UNCHANGED <<world, nodes, mutex, queue, workers, main, processed>>

NextIdFilter == CallItemInit

SpecIdFilter == InitIdFilter /\ [][NextIdFilter]_vars

(***************************************************************************)
(* Properties of the walk.                                                 *)
(***************************************************************************)
Root == nodes[RootPath]

\* the positions of a list whose entry is located at path p
At(list, p) == {i \in 1..Len(list) : list[i].path = p}

RootItemLinks == {ItemPath(0, k) : k \in 1..Len(world.rootKinds)}

\* what the item link at path p does, as fixed by the world alone
LinkOutcome(w, p) ==
    LET g == GetJson(w, p) IN
    IF g.raise THEN "raise"
    ELSE ItemInit(g.json, p, FiltersOf(w).itemFilters, NoArgs, w.validate).res

\* C1: Partial failure isolation. Once the root's init has returned, each
\* item link of the root has been processed exactly once; a link whose fetch
\* or Item init raised has exactly one error entry, located at the link's
\* absolute path, and no Item; any other link has no error entry and has its
\* Item in the list exactly once if accepted, not at all if rejected. So the
\* error entries for the root's n item links number exactly k, the number
\* of failing links.
C1_PartialFailureIsolation ==
    main.pc = "done" =>
        /\ \A p \in RootItemLinks :
              /\ processed[p] = 1
              /\ Cardinality(At(Root.errors, p)) =
                    (IF LinkOutcome(world, p) = "raise" THEN 1 ELSE 0)
              /\ Cardinality(At(Root.itemList, p)) =
                    (IF LinkOutcome(world, p) = "accepted" THEN 1 ELSE 0)
        /\ Cardinality({i \in 1..Len(Root.errors) : Root.errors[i].path \in RootItemLinks})
              = Cardinality({p \in RootItemLinks : LinkOutcome(world, p) = "raise"})

\* C1 witness: three item links, the second one's fetch raised; the walk is
\* over with one error entry at that link and the first link's Item listed
C1_Witness ==
    /\ main.pc = "done"
    /\ world.rootKinds = <<"alpha", "missing", "beta">>
    /\ Cardinality(At(Root.errors, ItemPath(0, 2))) = 1
    /\ Cardinality(At(Root.itemList, ItemPath(0, 1))) = 1
    /\ processed[ItemPath(0, 3)] = 1

\* the nodes retained at or below node p: p and, transitively, the children
\* held in m_subCatalogs
RECURSIVE Below(_)
Below(p) ==
    {p} \cup UNION {Below(nodes[p].subCatalogs[i]) : i \in 1..Len(nodes[p].subCatalogs)}

\* C2: Once the root's init has returned, every Item accepted at any retained
\* node below the root, at any depth, is in the root's item list exactly once.
C2_AllAcceptedItemsReachRoot ==
    main.pc = "done" =>
        \A c \in Below(RootPath) : \A i \in 1..Len(nodes[c].itemList) :
            Cardinality(At(Root.itemList, nodes[c].itemList[i].path)) = 1

\* C3: Once the root's init has returned, every error entry recorded by a
\* retained node at any depth is in the root's error list; and no step ever
\* removes or changes an entry recorded earlier (each list only grows).
C3_AllErrorsReachRoot ==
    /\ [](main.pc = "done" =>
            \A c \in Below(RootPath) : \A i \in 1..Len(nodes[c].errors) :
                \E j \in 1..Len(Root.errors) : Root.errors[j] = nodes[c].errors[i])
    /\ [][main'.pc # "crashed" =>
            \A c \in CatPaths :
                /\ Len(nodes'[c].errors) >= Len(nodes[c].errors)
                /\ SubSeq(nodes'[c].errors, 1, Len(nodes[c].errors)) = nodes[c].errors]_vars

\* C4: Barrier ordering. Whenever the root is in or past handleNested, no
\* task is queued and no pool thread is running one or holding a mutex, even
\* though tasks were enqueued by other tasks after the root's own batch; and
\* from then on no step writes a node other than the root's own aggregation.
C4_BarrierOrdering ==
    /\ [](main.pc \in {"nested", "done"} =>
            /\ queue = <<>>
            /\ \A w \in Threads : workers[w].pc = "idle"
            /\ \A p \in CatPaths : mutex[p] = 0)
    /\ [][main.pc \in {"nested", "done"} =>
            \A p \in CatPaths \ {RootPath} : nodes'[p] = nodes[p]]_vars

\* C4 witness: the root is about to aggregate its retained child, and a task
\* enqueued by the child's child (two levels below the root's batch) has run
C4_Witness ==
    /\ main.pc = "nested"
    /\ Root.subCatalogs = <<CatPath(1)>>
    /\ nodes[CatPath(1)].subCatalogs # <<>>
    /\ processed[ItemPath(2, 1)] = 1

\* C5: Every step that changes a node's item list, retained-child list or
\* error list is the push_back of a pool thread that holds that live node's
\* mutex, or the root's aggregation after the pool has drained; and a node is
\* never torn down while a pool thread holds its mutex.
C5_MutexDiscipline ==
    [][main'.pc # "crashed" =>
        \A p \in CatPaths :
            /\ Seen(nodes'[p]) # Seen(nodes[p]) =>
                  \/ \E w \in Threads :
                        /\ workers[w].pc = "write"
                        /\ workers[w].task.node = p
                        /\ mutex[p] = w
                        /\ nodes[p].status # "Failed"
                  \/ p = RootPath /\ main.pc = "nested" /\ PoolDrained
            /\ (nodes[p].status # "Failed" /\ nodes'[p].status = "Failed") =>
                  mutex[p] = 0]_vars

IdSet(list) == {list[i].id : i \in 1..Len(list)}

\* a child's init gets through its link loop
LinksWellFormed(w, p) ==
    \A i \in 1..Len(GetJson(w, p).json.links) : WellFormed(GetJson(w, p).json.links[i])

\* the result as the documents, fetch outcomes and filters alone fix it: the
\* accepted Items linked by the root, and those linked by a child the root
\* retains
ExpectedPaths(w) ==
    {ItemPath(0, k) : k \in {j \in 1..Len(ItemKinds(w, 0)) :
                                LinkOutcome(w, ItemPath(0, j)) = "accepted"}}
    \cup
    (IF /\ MaxDepth >= 1
        /\ ~GetJson(w, CatPath(1)).raise
        /\ CatalogFilter(GetJson(w, CatPath(1)).json, FiltersOf(w), FALSE)
        /\ LinksWellFormed(w, CatPath(1))
     THEN {ItemPath(1, k) : k \in {j \in 1..Len(ItemKinds(w, 1)) :
                                     LinkOutcome(w, ItemPath(1, j)) = "accepted"}}
     ELSE {})

ExpectedIds(w) == {GetJson(w, p).json.id : p \in ExpectedPaths(w)}

\* C6: Determinism of the result set. Whatever the interleaving of the pool's
\* tasks and whatever the pool size, when the root's init has returned the
\* set of Item ids in the root's item list is the one set fixed by the
\* documents, the fetch outcomes and the filters; only the order varies.
C6_ResultSetDeterministic ==
    main.pc = "done" => IdSet(Root.itemList) = ExpectedIds(world)

\* C6 witness: two pool threads finished the root's two item links in the
\* reverse of their declaration order, and the walk is over
C6_Witness ==
    /\ main.pc = "done"
    /\ world.threads = 2
    /\ Len(Root.itemList) >= 2
    /\ Root.itemList[1].path = ItemPath(0, 2)
    /\ Root.itemList[2].path = ItemPath(0, 1)

NoFullMatch(w, p) ==
    /\ p # RootPath
    /\ FiltersOf(w).ids # <<>>
    /\ ~GetJson(w, p).raise
    /\ \A k \in 1..Len(FiltersOf(w).ids) :
          ~RegexMatch(GetJson(w, p).json.id, FiltersOf(w).ids[k])

\* the absolute paths the well-formed links of the document at p point to
LinksOf(w, p) ==
    {HandleRelativePath(p, GetJson(w, p).json.links[i].href) :
        i \in {j \in 1..Len(GetJson(w, p).json.links) :
                  WellFormed(GetJson(w, p).json.links[j])}}

\* C8: With an id filter configured, a non-root Catalog/Collection whose id
\* no pattern matches in full is never walked: it accumulates nothing, none
\* of its links is ever enqueued or processed, no node retains it and no
\* error names it; and the root, whose id matches no pattern either, is
\* walked to the end all the same.
C8_CatalogIdFilterRejectsSubtree ==
    /\ \A p \in CatPaths : NoFullMatch(world, p) =>
          /\ nodes[p].status \in {"Unvisited", "Rejected"}
          /\ Seen(nodes[p]) = NoSeen
          /\ \A i \in 1..Len(queue) : queue[i].node # p
          /\ \A w \in Threads : workers[w].task.node # p
          /\ \A q \in LinksOf(world, p) : processed[q] = 0
          /\ \A c \in CatPaths :
                /\ \A i \in 1..Len(nodes[c].subCatalogs) : nodes[c].subCatalogs[i] # p
                /\ At(nodes[c].errors, p) = {}
    /\ (/\ main.pc = "done"
        /\ FiltersOf(world).ids # <<>>
        /\ \A k \in 1..Len(FiltersOf(world).ids) :
              ~RegexMatch(GetJson(world, RootPath).json.id, FiltersOf(world).ids[k]))
       => /\ Root.status = "Aggregated"
          /\ \A p \in LinksOf(world, RootPath) \ {RootPath} : processed[p] = 1

\* C8 witness: the child's id is XSub, the pattern S.* does not match it in
\* full; the child's task ran and rejected it, and the root's walk is over
C8_Witness ==
    /\ main.pc = "done"
    /\ FiltersOf(world).ids = <<PatS>>
    /\ GetJson(world, CatPath(1)).json.id = OtherId
    /\ nodes[CatPath(1)].status = "Rejected"
    /\ processed[CatPath(1)] = 1
    /\ processed[ItemPath(0, 1)] = 1

\* the Item's id passes the Item id patterns
IdPasses(id, ids) == ids = <<>> \/ \E k \in 1..Len(ids) : RegexMatch(id, ids[k])

\* C9: A root Catalog with a rel=catalog link to a sub-catalog that links
\* Items: once the root's init has returned with the sub-catalog retained,
\* the Items of the sub-catalog in the root's list are exactly those whose id
\* some pattern of the Item id filter matches, each once; with ^A.* and the
\* Items Alpha and Beta that is exactly Alpha.
C9_SubCatalogItemsFiltered ==
    (/\ main.pc = "done"
     /\ MaxDepth >= 1
     /\ GetJson(world, RootPath).json.links[Len(ItemKinds(world, 0)) + 1].rel = "catalog"
     /\ \E i \in 1..Len(Root.subCatalogs) : Root.subCatalogs[i] = CatPath(1))
    => /\ \A k \in 1..Len(ItemKinds(world, 1)) :
             Cardinality(At(Root.itemList, ItemPath(1, k))) =
                (IF IdPasses(GetJson(world, ItemPath(1, k)).json.id,
                             FiltersOf(world).itemFilters.ids) THEN 1 ELSE 0)
       /\ FiltersOf(world).itemFilters.ids = <<PatA>> =>
             {Root.itemList[i].id : i \in {j \in 1..Len(Root.itemList) :
                                               Dir(Root.itemList[j].path) = Dir(CatPath(1))}}
                = {Alpha}

\* C9 witness: no catalog id filter, Item id filter ^A.*; the walk is over,
\* the sub-catalog is retained, both its item links were processed and its
\* Alpha is in the root's list
C9_Witness ==
    /\ main.pc = "done"
    /\ world.filt = "items"
    /\ Root.subCatalogs = <<CatPath(1)>>
    /\ processed[ItemPath(1, 1)] = 1
    /\ processed[ItemPath(1, 2)] = 1
    /\ \E i \in 1..Len(Root.itemList) :
          Root.itemList[i].path = ItemPath(1, 1) /\ Root.itemList[i].id = Alpha

\* C10: Item id filter. A well-formed Item is accepted when ids is empty;
\* when ids is not empty it is accepted iff some pattern of ids matches its
\* whole id; a pattern that matches only part of the id does not count.
C10_ItemIdFilter ==
    call.done =>
        /\ call.ids = <<>> => call.res = "accepted"
        /\ call.ids # <<>> =>
              (call.res = "accepted" <=>
                  \E k \in 1..Len(call.ids) : RegexMatch(call.id, call.ids[k]))
        /\ call.res \in {"accepted", "rejected"}

\* C10 witness: the id Beta against the patterns et and ^A.*: et matches
\* inside Beta only, and the Item is rejected
C10_Witness ==
    /\ call.done
    /\ call.id = Beta
    /\ call.ids = <<PatEt, PatA>>
    /\ call.res = "rejected"

(***************************************************************************)
(* Item::init on its own, collection filter: the Item declares a           *)
(* collection or not, the filter holds up to MaxIds patterns.              *)
(***************************************************************************)
\* the Item document of the call: well formed, with or without the
\* collection member
CollectionDoc(has, col) ==
    [ItemDoc(Alpha, "cloud.laz") EXCEPT
        !.keys = IF has THEN @ \cup {"collection"} ELSE @,
        !.collection = col]

InitCollection ==
    /\ world = QuietWorld
    /\ WalkerInit
    /\ call \in [has : BOOLEAN, col : IdPool, cols : PatSeqs,
                  done : {FALSE}, res : {""}]

\* item.init(filters, ...) with only filters.collections configured
CallCollectionInit ==
    /\ ~call.done
    /\ call' = [call EXCEPT
                   !.done = TRUE,
                   !.res = ItemInit(CollectionDoc(call.has, call.col), ItemPath(0, 1),
                                    [ItemFilters(<<>>) EXCEPT !.collections = call.cols],
                                    NoArgs, FALSE).res]
    /\ UNCHANGED <<world, nodes, mutex, queue, workers, main, processed>>

NextCollection == CallCollectionInit

SpecCollection == InitCollection /\ [][NextCollection]_vars

\* C11: Collection filter. With no collection pattern every Item is
\* accepted; with patterns an Item is accepted iff it declares a collection
\* and some pattern matches that value in full; an Item without a collection
\* field is then rejected, and no call raises.
C11_CollectionFilter ==
    call.done =>
        /\ call.cols = <<>> => call.res = "accepted"
        /\ call.cols # <<>> =>
              (call.res = "accepted" <=>
                  /\ call.has
                  /\ \E k \in 1..Len(call.cols) : RegexMatch(call.col, call.cols[k]))
        /\ (call.cols # <<>> /\ ~call.has) => call.res = "rejected"
        /\ call.res # "raise"

\* C11 witness: a pattern is configured, the Item declares no collection,
\* and init has rejected it
C11_Witness ==
    /\ call.done
    /\ ~call.has
    /\ call.cols = <<PatS>>
    /\ call.res = "rejected"

(***************************************************************************)
(* Item::init on its own, date filter.  A timestamp is the string of its   *)
(* character codes, in one of two RFC 3339 spellings of the same second:   *)
(* "hZ" and "h.0Z" (h one digit; the date and the leading time fields,     *)
(* equal in every timestamp, are left out).                                *)
(***************************************************************************)
\* largest second explored
MaxHour == 2
\* longest list of date ranges explored
MaxRanges == 1

Stamp(h) == <<48 + h, 90>>
StampFrac(h) == <<48 + h, 46, 48, 90>>
Stamps == {Stamp(h) : h \in 0..MaxHour} \cup {StampFrac(h) : h \in 0..MaxHour}

\* the instant an RFC 3339 timestamp denotes: a fraction of .0 adds nothing
Instant(stamp) == stamp[1] - 48

DateRanges == UNION {[1..n -> {<<a, b>> : a \in Stamps, b \in Stamps}] : n \in 0..MaxRanges}

\* the Item document of the call: datetime, or start_datetime and end_datetime
DateDoc(c) ==
    [ItemDoc(Alpha, "cloud.laz") EXCEPT
        !.properties = IF c.form = "instant"
                       THEN ("datetime" :> Str(c.d))
                       ELSE ("start_datetime" :> Str(c.s)) @@ ("end_datetime" :> Str(c.e))]

InitDates ==
    /\ world = QuietWorld
    /\ WalkerInit
    /\ call \in [form : {"instant"}, d : Stamps, s : {Stamp(0)}, e : {Stamp(0)},
                  dates : DateRanges, done : {FALSE}, res : {""}]
              \cup
              [form : {"interval"}, d : {Stamp(0)}, s : Stamps, e : Stamps,
               dates : DateRanges, done : {FALSE}, res : {""}]

\* item.init(filters, ...) with only filters.dates configured
CallDateInit ==
    /\ ~call.done
    /\ call' = [call EXCEPT
                   !.done = TRUE,
                   !.res = ItemInit(DateDoc(call), ItemPath(0, 1),
                                    [ItemFilters(<<>>) EXCEPT !.dates = call.dates],
                                    NoArgs, FALSE).res]
    /\ UNCHANGED <<world, nodes, mutex, queue, workers, main, processed>>

NextDates == CallDateInit

SpecDates == InitDates /\ [][NextDates]_vars

\* C12: Date filter, instant form. An Item carrying datetime = d is accepted
\* under an empty date filter; under a non-empty one it is accepted iff
\* a <= d <= b, as instants and with both ends included, for at least one
\* supplied range (a, b).
C12_DateFilterInstant ==
    (call.done /\ call.form = "instant") =>
        /\ call.dates = <<>> => call.res = "accepted"
        /\ call.dates # <<>> =>
              (call.res = "accepted" <=>
                  \E k \in 1..Len(call.dates) :
                      /\ Instant(call.dates[k][1]) <= Instant(call.d)
                      /\ Instant(call.d) <= Instant(call.dates[k][2]))

\* C13: Date filter, interval form. An Item carrying start_datetime = s and
\* end_datetime = e with s <= e is accepted under a non-empty date filter
\* whose ranges (a, b) all have a <= b iff for at least one of them the
\* closed intervals [s, e] and [a, b] intersect: a <= e and s <= b, as
\* instants.
C13_DateFilterInterval ==
    (/\ call.done
     /\ call.form = "interval"
     /\ Instant(call.s) <= Instant(call.e)
     /\ call.dates # <<>>
     /\ \A k \in 1..Len(call.dates) :
           Instant(call.dates[k][1]) <= Instant(call.dates[k][2])) =>
        (call.res = "accepted" <=>
            \E k \in 1..Len(call.dates) :
                /\ Instant(call.dates[k][1]) <= Instant(call.e)
                /\ Instant(call.s) <= Instant(call.dates[k][2]))

(***************************************************************************)
(* Item::init on its own, properties filter: the Item carries a value for  *)
(* key "k" and one for key "j"; the filter names "k", or "j" and "k".      *)
(***************************************************************************)
\* the strings x, y, z as character codes
StrX == Str(<<120>>)
StrY == Str(<<121>>)
StrZ == Str(<<122>>)

\* 1.25 and 1.75 in units of 1/4
Float125 == FloatV(5)
Float175 == FloatV(7)

ItemValues == {StrX, StrZ, UIntV(1), IntV(-1), Float125, BoolV(TRUE)}
WantScalars == {StrX, StrY, UIntV(1), IntV(-1), Float125, Float175, BoolV(TRUE)}
WantArrays ==
    {ArrayV(<<StrX, StrY>>), ArrayV(<<StrY, StrX>>), ArrayV(<<StrX, UIntV(1)>>),
     ArrayV(<<Float175, FloatV(11)>>), ArrayV(<<UIntV(2), UIntV(1)>>)}

\* the properties of the call's Item and the call's filter map
PropertiesOf(c) == ("datetime" :> Str(<<2, 0, 2, 2>>)) @@ ("k" :> c.k) @@ ("j" :> c.j)
WantOf(c) == IF c.two THEN ("j" :> c.wantJ) @@ ("k" :> c.wantK) ELSE ("k" :> c.wantK)
WantKeys(c) == IF c.two THEN <<"j", "k">> ELSE <<"k">>

InitProperties ==
    /\ world = QuietWorld
    /\ WalkerInit
    /\ call \in [k : ItemValues, wantK : WantScalars \cup WantArrays,
                  two : BOOLEAN, j : {StrX, StrZ}, wantJ : {StrX},
                  done : {FALSE}, res : {""}]

\* item.init(filters, ...) with only filters.properties configured
CallPropertyInit ==
    /\ ~call.done
    /\ call' = [call EXCEPT
                   !.done = TRUE,
                   !.res = ItemInit([ItemDoc(Alpha, "cloud.laz") EXCEPT
                                        !.properties = PropertiesOf(call)],
                                    ItemPath(0, 1),
                                    [ItemFilters(<<>>) EXCEPT
                                        !.properties = WantOf(call),
                                        !.propertyKeys = WantKeys(call)],
                                    NoArgs, FALSE).res]
    /\ UNCHANGED <<world, nodes, mutex, queue, workers, main, processed>>

NextProperties == CallPropertyInit

SpecProperties == InitProperties /\ [][NextProperties]_vars

\* the number a numeric JSON value holds, in units of 1/FloatScale
Numeric(x) == IF x.t = "number_float" THEN x.v[1] ELSE x.v[1] * FloatScale

\* equality of two JSON values: numbers by value, anything else by type
\* and content
ValueEq(a, b) ==
    IF IsStrictNumber(a) /\ IsStrictNumber(b) THEN Numeric(a) = Numeric(b)
    ELSE a = b

\* the Item's value for a key of the filter equals the filter's value, or
\* one of its elements when that is an array
KeySatisfied(have, want) ==
    IF want.t = "array"
    THEN \E i \in 1..Len(want.items) : ValueEq(have, want.items[i])
    ELSE ValueEq(have, want)

\* C14: Property filter. An Item is accepted iff for every key of the filter
\* map its value for that key equals the filter's value, or at least one
\* element of it when the filter's value is an array.
C14_PropertyFilter ==
    call.done =>
        (call.res = "accepted" <=>
            \A i \in 1..Len(WantKeys(call)) :
                KeySatisfied(PropertiesOf(call)[WantKeys(call)[i]],
                             WantOf(call)[WantKeys(call)[i]]))

(***************************************************************************)
(* The walker under a properties filter {pc:type: lidar}: the root links   *)
(* an Item of pc:type lidar and one of pc:type sonar.                      *)
(***************************************************************************)
SilentWorlds ==
    [rootKinds : {<<"lidar", "sonar">>},
     sub : {"ok", "badlink"},
     filt : {"props"},
     threads : 1..MaxThreads,
     validate : {FALSE}]

InitSilent ==
    /\ world \in SilentWorlds
    /\ WalkerInit
    /\ call = NoCall

SpecSilent == InitSilent /\ [][Next]_vars

\* the item links of the catalog at depth d
ItemLinksAt(w, d) == {ItemPath(d, k) : k \in 1..Len(ItemKinds(w, d))}

\* the Item served at p is well formed and a configured filter predicate
\* excludes it: its pc:type is not the one asked for
FilteredOut(w, p) ==
    /\ ~GetJson(w, p).raise
    /\ w.filt = "props"
    /\ "pc:type" \in DOMAIN GetJson(w, p).json.properties
    /\ GetJson(w, p).json.properties["pc:type"] # Lidar

\* C15: Rejection is silent. For every item link whose Item a filter
\* predicate excludes (pc:type sonar under the filter {pc:type: lidar}), no
\* node ever holds an error entry for that link, no pool thread ever carries
\* an error for it, and the Item is in no item list; once the walk is over the
\* link has been processed, still without an error entry.
C15_RejectionIsSilent ==
    \A d \in Depths : \A p \in ItemLinksAt(world, d) :
        FilteredOut(world, p) =>
            /\ \A c \in CatPaths :
                  At(nodes[c].errors, p) = {} /\ At(nodes[c].itemList, p) = {}
            /\ \A w \in Threads :
                  workers[w].task.absLinkPath = p => workers[w].out.kind # "error"
            /\ main.pc = "done" => processed[p] = 1

\* C15 witness: the walk is over, the sonar Item's link was processed and
\* left no error entry, and the lidar Item next to it is listed
C15_Witness ==
    /\ main.pc = "done"
    /\ FilteredOut(world, ItemPath(0, 2))
    /\ processed[ItemPath(0, 2)] = 1
    /\ At(Root.errors, ItemPath(0, 2)) = {}
    /\ Cardinality(At(Root.itemList, ItemPath(0, 1))) = 1

(***************************************************************************)
(* Item::init on its own, spatial filter: the Item carries a bbox of 4 or  *)
(* 6 elements, with or without a geometry; boxes lie side by side on the   *)
(* x axis: [0,1], [1,2] (touching [0,1]) and [3,4].                        *)
(***************************************************************************)
XRanges == {<<0, 1>>, <<1, 2>>, <<3, 4>>}

BoxOn(xr) == Box(xr[1], 0, 0, xr[2], 1, 0)

\* the bbox member: [minx, miny, maxx, maxy] or
\* [minx, miny, minz, maxx, maxy, maxz]
BBox(xr, n) ==
    IF n = 4 THEN <<xr[1], 0, xr[2], 1>> ELSE <<xr[1], 0, 0, xr[2], 1, 0>>

BoundsDoc(c) ==
    [ItemDoc(Alpha, "cloud.laz") EXCEPT
        !.keys = IF c.hasGeometry THEN @ ELSE @ \ {"geometry"},
        !.geometry = [valid |-> TRUE, box |-> BoxOn(c.geom)],
        !.bbox = BBox(c.bbox, c.n)]

\* the bounds option: 2D for a 4-element bbox, 3D for a 6-element one
BoundsOf(c) == [empty |-> FALSE, is3d |-> c.n = 6, box |-> BoxOn(c.bounds)]

InitBounds ==
    /\ world = QuietWorld
    /\ WalkerInit
    /\ call \in [hasGeometry : BOOLEAN, geom : XRanges, bbox : XRanges, n : {4, 6},
                  bounds : XRanges, done : {FALSE}, res : {""}]

\* item.init(filters, ...) with only filters.bounds configured
CallBoundsInit ==
    /\ ~call.done
    /\ call' = [call EXCEPT
                   !.done = TRUE,
                   !.res = ItemInit(BoundsDoc(call), ItemPath(0, 1),
                                    [ItemFilters(<<>>) EXCEPT !.bounds = BoundsOf(call)],
                                    NoArgs, FALSE).res]
    /\ UNCHANGED <<world, nodes, mutex, queue, workers, main, processed>>

NextBounds == CallBoundsInit

SpecBounds == InitBounds /\ [][NextBounds]_vars

\* C16: Spatial filter on bbox. With a bounds filter configured, an Item
\* carrying a bbox of 4 or 6 elements, with or without a geometry, is
\* accepted when its bbox overlaps or touches the filter bounds and rejected
\* when it is disjoint from them, and init never raises.
C16_SpatialFilterOnBbox ==
    call.done =>
        call.res = (IF Overlaps3d(BoxOn(call.bounds), BoxOn(call.bbox))
                    THEN "accepted" ELSE "rejected")

(***************************************************************************)
(* Item::extractDriverFromItem on its own: one asset, its declared type,   *)
(* its href, what a HEAD request for it would answer, and whether the      *)
(* resolved path exists on the local filesystem.                           *)
(***************************************************************************)
DeclaredTypes == {"", CopcType, "Application/vnd.laszip+copc", "text/plain"}
DataFiles == {"alpha.laz", "alpha.copc.laz", "data.bin"}
HeadAnswers == {"raise", "", CopcType, "text/plain"}

\* the asset of the call; a declared type of "" stands for no type member
DriverAsset(c) ==
    [keys |-> IF c.type = "" THEN {"href"} ELSE {"href", "type"},
     href |-> IF c.abs THEN Abs(<<"data", c.file>>) ELSE Rel(<<c.file>>),
     type |-> c.type,
     head |-> c.head]

\* the Item document hosting it, located at sub1/item1.json
DriverDoc(c) == [ItemDoc(Alpha, c.file) EXCEPT !.assets = ("data" :> DriverAsset(c))]

InitDriver ==
    /\ world = QuietWorld
    /\ WalkerInit
    /\ call \in [type : DeclaredTypes, file : DataFiles, abs : BOOLEAN,
                  head : HeadAnswers, local : BOOLEAN,
                  done : {FALSE}, res : {""}, item : {""}]

\* m_driver = extractDriverFromItem(asset), and the Item::filter call around it
CallExtractDriver ==
    /\ ~call.done
    /\ call' = [call EXCEPT
                   !.done = TRUE,
                   !.res = ExtractDriverFromItem(DriverAsset(call), ItemPath(1, 1)),
                   !.item = ItemFilter(DriverDoc(call), ItemPath(1, 1), ItemFilters(<<>>))]
    /\ UNCHANGED <<world, nodes, mutex, queue, workers, main, processed>>

NextDriver == CallExtractDriver

SpecDriver == InitDriver /\ [][NextDriver]_vars

\* the asset's resolved location
DataUrl(c) == IF c.abs THEN <<"data", c.file>> ELSE <<"sub1", c.file>>

\* C17: Driver inference order. (a) A declared content-type found in the
\* table gives its driver (the COPC type gives readers.copc, with the
\* absolute href as the resolved path) and no HEAD request; (b) else a driver
\* inferred from the URL is used, again without a HEAD request; (c) a HEAD
\* request is issued only when (a) and (b) both fail and the path does not
\* exist on the local filesystem, and its content-type then decides.
C17_DriverInferenceOrder ==
    call.done =>
        IF ContentTypeDriver(call.type) # ""
        THEN /\ call.res = [raise |-> FALSE, driver |-> "readers.copc", headed |-> FALSE]
             /\ call.item.res = "keep"
             /\ call.item.driver = "readers.copc"
             /\ call.item.assetPath = DataUrl(call)
        ELSE IF InferReaderDriver(DataUrl(call)) # ""
        THEN call.res = [raise |-> FALSE, driver |-> InferReaderDriver(DataUrl(call)),
                         headed |-> FALSE]
        ELSE /\ call.res.headed <=> ~call.local
             /\ (call.res.headed /\ call.head # "raise") =>
                    call.res.driver = ContentTypeDriver(call.head)

(***************************************************************************)
(* The asset loop of Item::filter on its own: an Item whose assets "data"  *)
(* and "extra" are each absent, typed as COPC, recognisable from the URL,  *)
(* or without any resolvable driver, and a caller-supplied assetNames.     *)
(***************************************************************************)
AssetKinds == {"absent", "copc", "las", "none"}
AssetNameSeqs ==
    {<<"data">>, <<"extra">>, <<"data", "extra">>, <<"extra", "data">>,
     <<"data", "data">>, <<"extra", "extra">>}

\* the file an asset of the given kind points at
AssetFile(name, kind) ==
    CASE kind = "copc" -> IF name = "data" THEN "alpha.copc.laz" ELSE "beta.copc.laz"
      [] kind = "las" -> IF name = "data" THEN "alpha.laz" ELSE "beta.laz"
      [] OTHER -> IF name = "data" THEN "data.bin" ELSE "extra.bin"

AssetOfKind(name, kind) ==
    [keys |-> IF kind = "copc" THEN {"href", "type"} ELSE {"href"},
     href |-> Rel(<<AssetFile(name, kind)>>),
     type |-> CopcType,
     head |-> ""]

\* the Item document of the call
AssetsDoc(c) ==
    [ItemDoc(Alpha, "alpha.copc.laz") EXCEPT
        !.assets = [n \in {m \in {"data", "extra"} : c.kinds[m] # "absent"} |->
                        AssetOfKind(n, c.kinds[n])]]

InitAssets ==
    /\ world = QuietWorld
    /\ WalkerInit
    /\ call \in [kinds : [{"data", "extra"} -> AssetKinds], names : AssetNameSeqs,
                  done : {FALSE}, res : {""}, item : {NoItem}]

\* item.init(filters, ...) with the assetNames of the call and no other filter
CallAssetInit ==
    /\ ~call.done
    /\ LET r == ItemInit(AssetsDoc(call), ItemPath(0, 1),
                         [ItemFilters(<<>>) EXCEPT !.assetNames = call.names],
                         NoArgs, FALSE)
       IN call' = [call EXCEPT !.done = TRUE, !.res = r.res, !.item = r.item]
    /\ UNCHANGED <<world, nodes, mutex, queue, workers, main, processed>>

NextAssets == CallAssetInit

SpecAssets == InitAssets /\ [][NextAssets]_vars

\* positions of assetNames whose name is present and yields a driver
Resolvable(c) == {i \in 1..Len(c.names) : c.kinds[c.names[i]] \in {"copc", "las"}}

FirstResolvable(c) == CHOOSE i \in Resolvable(c) : \A j \in Resolvable(c) : i <= j

\* C18: Asset selection follows the caller's assetNames order: the driver and
\* the asset path of an Item come from the first name of assetNames that is
\* present in the Item's assets and yields a resolvable driver; no later name
\* overrides or clears that choice.
C18_FirstAssetWins ==
    (call.done /\ Resolvable(call) # {}) =>
        LET n == call.names[FirstResolvable(call)]
            k == call.kinds[n]
        IN /\ call.res = "accepted"
           /\ call.item.driver = (IF k = "copc" THEN "readers.copc" ELSE "readers.las")
           /\ call.item.assetPath = <<AssetFile(n, k)>>

(***************************************************************************)
(* StacReader::initialize on a FeatureCollection root: the pages of a      *)
(* paginated feed, StacReader::initializeItem on every embedded feature,   *)
(* the recursion of StacReader::initializeItemCollection along next links, *)
(* and the reader list.  The resolution runs on the calling thread; its    *)
(* state is held in call: pc, the stack of initializeItemCollection frames *)
(* (page path, next feature, next link), m_readerList, the inputs of        *)
(* m_merge and m_idList, which no statement of the reader writes.          *)
(***************************************************************************)
MaxPages == 2
MaxFeatures == 2
\* the recursion of initializeItemCollection is followed to this depth
MaxStack == 4

PageFile == "page.json"
MoreDir == "more"
PageDirs == <<"p1", "p2", "p3", "p4">>
FeatFiles == <<"a.copc.laz", "b.copc.laz", "c.copc.laz", "d.copc.laz">>
FeatIds == <<<<"f", "a">>, <<"f", "b">>, <<"f", "c">>, <<"f", "d">>>>

\* page p of a feed lies p - 1 directories below the root page
PagePath(p) == [i \in 1..(p - 1) |-> MoreDir] \o <<PageFile>>

\* an embedded feature is well-formed with a COPC-typed asset, or has an
\* asset from which no driver can be inferred
FeatKinds == {"copc", "nodriver"}
FeatSeqs == UNION {[1..k -> FeatKinds] : k \in 0..MaxFeatures}
PageShapes ==
    {[has |-> TRUE, feats |-> f] : f \in FeatSeqs} \cup {[has |-> FALSE, feats |-> <<>>]}

\* a feed: its pages, chained by next links; whether every page's links start
\* with a self link; and what follows on the last page (nothing, a self link,
\* a link without rel, a next link back to the root page)
Feeds ==
    UNION {[pages : [1..n -> PageShapes], lead : BOOLEAN,
            tail : {"none", "self", "norel", "cycle"}] : n \in 1..MaxPages}

BlobFiles == <<"a.bin", "b.bin", "c.bin", "d.bin">>

\* where the data asset of feature i of page p points
FeatureHref(p, i, kind) ==
    <<"data", PageDirs[p], IF kind = "copc" THEN FeatFiles[i] ELSE BlobFiles[i]>>

FeatureDoc(p, i, kind) ==
    [ItemDoc(<<PageDirs[p]>> \o FeatIds[i], FeatFiles[i]) EXCEPT
        !.assets = ("data" :>
            [keys |-> IF kind = "copc" THEN {"href", "type"} ELSE {"href"},
             href |-> Abs(FeatureHref(p, i, kind)),
             type |-> CopcType,
             head |-> ""])]

PageLinks(feed, p) ==
    (IF feed.lead THEN <<Link("self", Rel(<<PageFile>>))>> ELSE <<>>)
    \o (IF p < Len(feed.pages) THEN <<Link("next", Rel(<<MoreDir, PageFile>>))>>
        ELSE IF feed.tail = "self" THEN <<Link("self", Rel(<<PageFile>>))>>
        ELSE IF feed.tail = "norel"
        THEN <<[keys |-> {"href"}, rel |-> "", href |-> Rel(<<PageFile>>)]>>
        ELSE IF feed.tail = "cycle" THEN <<Link("next", Abs(PagePath(1)))>>
        ELSE <<>>)

PageDoc(feed, p) ==
    [type |-> "FeatureCollection",
     keys |-> {"type"}
              \cup (IF feed.pages[p].has THEN {"features"} ELSE {})
              \cup (IF PageLinks(feed, p) # <<>> THEN {"links"} ELSE {}),
     features |-> [i \in 1..Len(feed.pages[p].feats) |->
                      FeatureDoc(p, i, feed.pages[p].feats[i])],
     links |-> PageLinks(feed, p)]

\* Connector::getJson on a page location: [raise, json]
GetPage(feed, path) ==
    LET p == Len(path) IN
    IF p \in 1..Len(feed.pages) /\ path = PagePath(p)
    THEN [raise |-> FALSE, json |-> PageDoc(feed, p)]
    ELSE [raise |-> TRUE, json |-> PageDoc(feed, 1)]

\* StageFactory::createStage: the drivers the registry can construct
KnownStages == {"readers.copc", "readers.las"}
CreateStage(driver) == driver \in KnownStages

\* m_filename of the resolution: the root page
RootPage == PagePath(1)

\* the Filters initializeItem hands to Item::init: the asset names only
ReaderFilters == ItemFilters(<<>>)

InitPages ==
    /\ world = QuietWorld
    /\ WalkerInit
    /\ call \in [feed : Feeds, pc : {"start"}, stack : {<<>>}, readerList : {<<>>},
                  merge : {<<>>}, idList : {<<>>}]

Failed(c) == [c EXCEPT !.pc = "failed", !.stack = <<>>]

\* entry of initializeItemCollection(stacJson, icPath): the features test,
\* then a frame positioned on the first feature and the first link
EnterPage(c, json, icPath) ==
    IF "features" \notin json.keys THEN Failed(c)
    ELSE [c EXCEPT !.pc = "page",
                   !.stack = Append(@, [path |-> icPath, fi |-> 1, li |-> 1])]

Top == call.stack[Len(call.stack)]
TopDoc == GetPage(call.feed, Top.path).json

\* the dispatch of StacReader::initialize on stacJson.at("type"): the handler
\* called, or "raise"
RootDispatch(json) ==
    IF "type" \notin json.keys THEN "raise"
    ELSE CASE json.type = "Feature" -> "initializeItem"
           [] json.type = "Catalog" -> "initializeCatalog"
           [] json.type = "FeatureCollection" -> "initializeItemCollection"
           [] OTHER -> "raise"

\* the body of StacReader::initializeItem: [raise, reader].  The Item is built
\* on m_filename, the result of init is not looked at, and the stage for
\* item.driver() is created and given item.options()
ItemReader(json, m_filename, filters) ==
    LET r == ItemInit(json, m_filename, filters, NoArgs, FALSE)
        driver == ItemFilter(json, m_filename, filters).driver
    IN [raise |-> r.res = "raise" \/ ~CreateStage(driver),
        reader |-> [driver |-> driver, options |-> r.item.options]]

\* StacReader::initialize up to the dispatch on the root's type
Initialize ==
    /\ call.pc = "start"
    /\ LET g == GetPage(call.feed, RootPage) IN
         call' = IF g.raise \/ RootDispatch(g.json) # "initializeItemCollection"
                 THEN Failed(call)
                 ELSE EnterPage(call, g.json, RootPage)
    /\ UNCHANGED <<world, nodes, mutex, queue, workers, main, processed>>

\* StacReader::initializeItem on the next feature of the page: the Item is
\* built on m_filename, the result of init is not looked at, and the stage
\* for item.driver() is created and pushed on m_readerList
InitializeItem ==
    /\ call.pc = "page"
    /\ Top.fi <= Len(TopDoc.features)
    /\ LET r == ItemReader(TopDoc.features[Top.fi], RootPage, ReaderFilters)
       IN call' = IF r.raise THEN Failed(call)
                  ELSE [call EXCEPT !.stack[Len(call.stack)].fi = @ + 1,
                                    !.merge = Append(@, r.reader),
                                    !.readerList = Append(@, r.reader)]
    /\ UNCHANGED <<world, nodes, mutex, queue, workers, main, processed>>

\* a next link that is passed like any other link
FollowLinkNoRecursion ==
    /\ call.pc = "page"
    /\ Top.fi > Len(TopDoc.features)
    /\ "links" \in TopDoc.keys
    /\ Top.li <= Len(TopDoc.links)
    /\ call' = IF "rel" \notin TopDoc.links[Top.li].keys THEN Failed(call)
               ELSE [call EXCEPT !.stack[Len(call.stack)].li = @ + 1]
    /\ UNCHANGED <<world, nodes, mutex, queue, workers, main, processed>>

\* a next link to a page that is being processed is passed over
FollowLinkVisitedGuard ==
    /\ call.pc = "page"
    /\ Top.fi > Len(TopDoc.features)
    /\ "links" \in TopDoc.keys
    /\ Top.li <= Len(TopDoc.links)
    /\ LET link == TopDoc.links[Top.li]
           moved == [call EXCEPT !.stack[Len(call.stack)].li = @ + 1]
       IN call' =
            IF "rel" \notin link.keys THEN Failed(call)
            ELSE IF link.rel # "next" THEN moved
            ELSE LET nextAbsPath == HandleRelativePath(Top.path, link.href)
                     g == GetPage(call.feed, nextAbsPath)
                 IN IF g.raise THEN Failed(call)
                    ELSE IF \E k \in 1..Len(call.stack) : call.stack[k].path = nextAbsPath
                    THEN moved
                    ELSE EnterPage(moved, g.json, nextAbsPath)
    /\ UNCHANGED <<world, nodes, mutex, queue, workers, main, processed>>

\* one turn of the loop over links: a link without rel throws, a next link
\* is resolved against icPath, fetched and entered, any other link is passed
FollowLink ==
    /\ call.pc = "page"
    /\ Len(call.stack) < MaxStack
    /\ Top.fi > Len(TopDoc.features)
    /\ "links" \in TopDoc.keys
    /\ Top.li <= Len(TopDoc.links)
    /\ LET link == TopDoc.links[Top.li]
           moved == [call EXCEPT !.stack[Len(call.stack)].li = @ + 1]
       IN call' =
            IF "rel" \notin link.keys THEN Failed(call)
            ELSE IF link.rel # "next" THEN moved
            ELSE IF "href" \notin link.keys THEN Failed(call)
            ELSE LET nextAbsPath == HandleRelativePath(Top.path, link.href)
                     g == GetPage(call.feed, nextAbsPath)
                 IN IF g.raise THEN Failed(call)
                    ELSE EnterPage(moved, g.json, nextAbsPath)
    /\ UNCHANGED <<world, nodes, mutex, queue, workers, main, processed>>

\* initializeItemCollection returns; from the root page it returns into
\* initialize, which awaits and stops the pool and tests the reader list
ReturnPage ==
    /\ call.pc = "page"
    /\ Top.fi > Len(TopDoc.features)
    /\ "links" \in TopDoc.keys => Top.li > Len(TopDoc.links)
    /\ call' = IF Len(call.stack) > 1
               THEN [call EXCEPT !.stack = SubSeq(@, 1, Len(@) - 1)]
               ELSE IF call.readerList = <<>> THEN Failed(call)
               ELSE [call EXCEPT !.pc = "done", !.stack = <<>>]
    /\ UNCHANGED <<world, nodes, mutex, queue, workers, main, processed>>

NextPages ==
    \/ Initialize
    \/ InitializeItem
    \/ FollowLink
    \/ ReturnPage

SpecPages == InitPages /\ [][NextPages]_vars

\* the resolution runs on the calling thread, which keeps running
FairPages == SpecPages /\ WF_vars(NextPages)

(***************************************************************************)
(* Properties of the resolution of a paginated feed.                       *)
(***************************************************************************)
Ended == call.pc \in {"done", "failed"}

\* the embedded features of a feed, as <<page, index>>
FeaturesOf(feed) ==
    {<<p, i>> \in (1..Len(feed.pages)) \X (1..MaxFeatures) :
        i <= Len(feed.pages[p].feats)}

KindOf(feed, f) == feed.pages[f[1]].feats[f[2]]

\* how many readers of the reader list read the asset of feature f
ReadersOf(f) ==
    Cardinality({k \in 1..Len(call.readerList) :
        call.readerList[k].options.filename
            = FeatureHref(f[1], f[2], KindOf(call.feed, f))})

\* nothing but an undriveable feature can go wrong in the feed
OnlyDriversMissing(feed) ==
    /\ \A p \in 1..Len(feed.pages) : feed.pages[p].has
    /\ feed.tail \notin {"norel", "cycle"}

Driveable(feed) == {f \in FeaturesOf(feed) : KindOf(feed, f) = "copc"}

\* C19: An Item for which no candidate asset name yields a driver is
\* rejected, not failed: as an embedded feature of an ItemCollection it is
\* left out without a hard failure while the remaining Items are still
\* processed, so that the resolution ends with one reader for each of the
\* other features, and succeeds whenever there is such a feature.
C19_NoDriverIsRejected ==
    (Ended /\ OnlyDriversMissing(call.feed)) =>
        /\ \A f \in FeaturesOf(call.feed) :
              ReadersOf(f) = (IF f \in Driveable(call.feed) THEN 1 ELSE 0)
        /\ Len(call.readerList) = Cardinality(Driveable(call.feed))
        /\ call.pc = "done" <=> Driveable(call.feed) # {}

\* C20: ItemCollection pagination.  For a FeatureCollection root with no
\* filters, a completed resolution has accepted exactly the embedded features
\* of every page reachable over next links from the root page, each feature
\* of each page once; a feed with a page that has no features key ends in a
\* hard failure.
C20_Pagination ==
    /\ call.pc = "done" =>
          /\ \A f \in FeaturesOf(call.feed) : ReadersOf(f) = 1
          /\ Len(call.readerList) = Cardinality(FeaturesOf(call.feed))
    /\ (Ended /\ \E p \in 1..Len(call.feed.pages) : ~call.feed.pages[p].has) =>
          call.pc = "failed"

\* two features on the root page, one on the next page, three readers
C20_Witness ==
    /\ call.pc = "done"
    /\ Len(call.feed.pages) = 2
    /\ Len(call.feed.pages[1].feats) = 2
    /\ Len(call.feed.pages[2].feats) = 1
    /\ Len(call.readerList) = 3

\* a feed whose every page can be processed and whose last page links back
Cyclic(feed) ==
    /\ feed.tail = "cycle"
    /\ \A p \in 1..Len(feed.pages) :
          /\ feed.pages[p].has
          /\ \A i \in 1..Len(feed.pages[p].feats) : feed.pages[p].feats[i] = "copc"

\* C21: Pagination has no cycle or revisit guard.  For a finite acyclic chain
\* of next links the ItemCollection resolution terminates; when a next link
\* leads back to an already visited page the resolution enters that page
\* again, and never completes.
C21_NoCycleGuard ==
    /\ <>(call.feed.tail = "cycle" \/ Ended)
    /\ [](Cyclic(call.feed) =>
            /\ ~Ended
            /\ \A k \in 1..Len(call.stack) :
                  call.stack[k].path = PagePath(((k - 1) % Len(call.feed.pages)) + 1))

\* the root page entered a second time, its features read a second time
C21_Witness ==
    /\ Cyclic(call.feed)
    /\ Len(call.feed.pages) = 2
    /\ \E j, k \in 1..Len(call.stack) : j < k /\ call.stack[j].path = call.stack[k].path
    /\ \E j, k \in 1..Len(call.readerList) :
          j < k /\ call.readerList[j] = call.readerList[k]

(***************************************************************************)
(* StacReader::initialize on a root document of any type: the dispatch,    *)
(* and for a root Feature the reader that initializeItem pushes.  The      *)
(* walks started for the other types are the subject of Spec and SpecPages.*)
(***************************************************************************)
RootTypes == {"", "Feature", "Catalog", "Collection", "FeatureCollection", "Item"}

\* the root document of the call; a type of "" stands for no type member
RootDoc(c) ==
    [type |-> c.type] @@
    [AssetsDoc(c) EXCEPT !.keys = IF c.type = "" THEN @ ELSE @ \cup {"type"}]

InitRoot ==
    /\ world = QuietWorld
    /\ WalkerInit
    /\ call \in [type : RootTypes, kinds : [{"data", "extra"} -> AssetKinds],
                  names : AssetNameSeqs, done : {FALSE},
                  handler : {""}, readerList : {<<>>}]

\* StacReader::initialize: read the type and dispatch; a root Feature is
\* handled in place
Dispatch ==
    /\ ~call.done
    /\ LET h == RootDispatch(RootDoc(call))
           r == ItemReader(RootDoc(call), RootPage,
                           [ItemFilters(<<>>) EXCEPT !.assetNames = call.names])
       IN call' = [call EXCEPT
                     !.done = TRUE,
                     !.handler = IF h = "initializeItem" /\ r.raise THEN "raise" ELSE h,
                     !.readerList = IF h = "initializeItem" /\ ~r.raise
                                    THEN <<r.reader>> ELSE <<>>]
    /\ UNCHANGED <<world, nodes, mutex, queue, workers, main, processed>>

NextRoot == Dispatch

SpecRoot == InitRoot /\ [][NextRoot]_vars

\* the root Feature's assets let initializeItem go through
RootItemReadable(c) ==
    ~ItemReader(RootDoc(c), RootPage,
                [ItemFilters(<<>>) EXCEPT !.assetNames = c.names]).raise

\* C22: Root dispatch.  The root document's type decides the handling: a
\* Feature goes to Item handling, a Catalog to the Catalog walker, a
\* Collection to the Collection walker, a FeatureCollection to the
\* ItemCollection walker; any other type is a hard failure of the resolution.
C22_RootDispatch ==
    call.done =>
        CASE call.type = "Feature" ->
                IF RootItemReadable(call)
                THEN call.handler = "initializeItem" /\ Len(call.readerList) = 1
                ELSE call.handler = "raise"
          [] call.type \in {"Catalog", "Collection"} -> call.handler = "initializeCatalog"
          [] call.type = "FeatureCollection" -> call.handler = "initializeItemCollection"
          [] OTHER -> call.handler = "raise"

\* the ids of the embedded features of a feed, page by page
RECURSIVE FeatureIds(_, _)
FeatureIds(feed, p) ==
    IF p > Len(feed.pages) THEN <<>>
    ELSE [i \in 1..Len(feed.pages[p].feats) |-> <<PageDirs[p]>> \o FeatIds[i]]
         \o FeatureIds(feed, p + 1)

\* C23: After a resolution completes successfully the reader list holds
\* exactly one reader per accepted Item, each attached as an input of the
\* merge stage, and the recorded id list holds exactly the ids of those Items.
C23_ReadersAndIds ==
    call.pc = "done" =>
        /\ \A f \in FeaturesOf(call.feed) : ReadersOf(f) = 1
        /\ Len(call.readerList) = Cardinality(FeaturesOf(call.feed))
        /\ call.merge = call.readerList
        /\ call.idList = FeatureIds(call.feed, 1)

(***************************************************************************)
(* StacReader::initialize on a Catalog root, after Catalog::init returned. *)
(***************************************************************************)
\* StacReader::initializeCatalog after catalog.init: m_readerList.  The item
\* list of the walk is copied into a local and no reader is created from it
InitializeCatalog(items) == <<>>

\* the end of StacReader::initialize: await, stop, and the reader list test
InitializeEnd(readerList) == IF readerList = <<>> THEN "raise" ELSE "done"

\* C24: Resolution fails with a hard failure if and only if no Item
\* survived: when the walk of a root Catalog is over, the resolution succeeds
\* if at least one Item of the tree was accepted, even if other links left
\* error entries, and raises 'reader list is empty' if none was.
C24_FailsIffNoSurvivor ==
    main.pc = "done" =>
        InitializeEnd(InitializeCatalog(Root.itemList))
            = (IF Root.itemList = <<>> THEN "raise" ELSE "done")

\* how far the root's init has come
MainRank(pc) ==
    CASE pc = "enqueue" -> 1
      [] pc = "await" -> 2
      [] pc = "nested" -> 3
      [] pc = "done" -> 4
      [] OTHER -> 5

\* C25: A non-root Catalog/Collection init never awaits or joins the pool
\* and never waits for another task: it returns right after enqueuing one
\* task per link, its last task still queued.  Awaiting the pool and nested
\* aggregation are done by the root invocation only, once per resolution: the
\* root passes its barrier and its aggregation once and in that order, and no
\* other node is ever aggregated or holds Items other than those of its own
\* item links.
C25_OnlyRootAwaits ==
    /\ [][\A w \in Threads :
            (workers[w].pc = "enqueue" /\ workers'[w].pc = "lock"
                /\ workers'[w].out.kind = "sub") =>
                /\ queue' # <<>>
                /\ queue'[Len(queue')].node = workers[w].task.absLinkPath
                /\ Len(queue') = Len(queue) + 1]_vars
    /\ [][main'.pc # main.pc => MainRank(main'.pc) > MainRank(main.pc)]_vars
    /\ [](\A p \in CatPaths \ {RootPath} :
            /\ nodes[p].status # "Aggregated"
            /\ \A i \in 1..Len(nodes[p].itemList) :
                  Dir(nodes[p].itemList[i].path) = Dir(p))
    /\ [](main.pc = "done" => Root.status = "Aggregated")

\* C25 witness: the child's init has returned and the root retains the child,
\* while a task the child enqueued has not been taken yet
C25_Witness ==
    /\ main.pc \in {"enqueue", "await"}
    /\ Root.subCatalogs = <<CatPath(1)>>
    /\ \E i \in 1..Len(queue) : queue[i].node = CatPath(1)

(***************************************************************************)
(* validateForFilter and the date filter of Item::filter together: an Item *)
(* document with any subset of its top-level keys and any layout of the    *)
(* date members of properties, with and without a date filter.             *)
(***************************************************************************)
TopKeys == {"id", "assets", "properties", "geometry", "bbox"}

\* properties holds: datetime; a null datetime; start_datetime only;
\* end_datetime only; both; a null datetime and both; none of them
DateLayouts == {"datetime", "null", "start", "end", "both", "nullboth", "none"}

LayoutProperties(layout) ==
    (IF layout \in {"datetime"} THEN ("datetime" :> Str(Stamp(1)))
     ELSE IF layout \in {"null", "nullboth"} THEN ("datetime" :> NullV)
     ELSE <<>>)
    @@ (IF layout \in {"start", "both", "nullboth"}
        THEN ("start_datetime" :> Str(Stamp(0))) ELSE <<>>)
    @@ (IF layout \in {"end", "both", "nullboth"}
        THEN ("end_datetime" :> Str(Stamp(1))) ELSE <<>>)

\* the Item document of the call
LayoutDoc(c) ==
    [ItemDoc(Alpha, "cloud.laz") EXCEPT
        !.keys = c.keys,
        !.properties = LayoutProperties(c.layout)]

\* the date filter of the call: none, or one range holding every date used
LayoutDates(c) == IF c.dated THEN <<<<Stamp(0), Stamp(MaxHour)>>>> ELSE <<>>

InitValidate ==
    /\ world = QuietWorld
    /\ WalkerInit
    /\ call \in [keys : SUBSET TopKeys, layout : DateLayouts, dated : BOOLEAN,
                  done : {FALSE}, res : {""}]

\* item.init(filters, ...) on the document, with the date filter of the call
CallValidateInit ==
    /\ ~call.done
    /\ call' = [call EXCEPT
                   !.done = TRUE,
                   !.res = ItemInit(LayoutDoc(call), ItemPath(0, 1),
                                    [ItemFilters(<<>>) EXCEPT !.dates = LayoutDates(call)],
                                    NoArgs, FALSE).res]
    /\ UNCHANGED <<world, nodes, mutex, queue, workers, main, processed>>

NextValidate == CallValidateInit

SpecValidate == InitValidate /\ [][NextValidate]_vars

\* C26: Structural validation accepts an Item that has id, assets,
\* properties and at least one of geometry or bbox; only an Item lacking both
\* geometry and bbox, or lacking id, assets or properties, is a hard failure.
\* (Stated for Items whose properties carry a datetime, with no filter.)
C26_GeometryOrBbox ==
    (call.done /\ call.layout = "datetime" /\ ~call.dated) =>
        call.res = (IF /\ {"id", "assets", "properties"} \subseteq call.keys
                       /\ ("geometry" \in call.keys \/ "bbox" \in call.keys)
                    THEN "accepted" ELSE "raise")

\* C27: Structural validation requires properties to contain datetime, or
\* both start_datetime and end_datetime: an Item that has all its top-level
\* keys is a hard failure exactly when its properties have no datetime and
\* not both of start_datetime and end_datetime.  (Stated with no filter.)
C27_DatetimeKeys ==
    (call.done /\ call.keys = TopKeys /\ ~call.dated) =>
        call.res = (IF call.layout \in {"start", "end", "none"}
                    THEN "raise" ELSE "accepted")

\* C28: With a non-empty date filter, an Item whose properties carry neither
\* a usable (non-null) datetime nor both start_datetime and end_datetime is a
\* hard failure: its init raises and the Item is never accepted.
C28_DateFilterNeedsDates ==
    (call.done /\ call.keys = TopKeys /\ call.dated
        /\ call.layout \in {"null", "start", "end", "none"}) =>
        call.res = "raise"

(***************************************************************************)
(* Item::handleReaderArgs inside Item::init: an accepted COPC Item and the *)
(* caller's reader_args, an array of up to MaxArgs entries.                *)
(***************************************************************************)
MaxArgs == 2

ArgValues == {<<"resolution=1">>, <<"resolution=2">>, <<"threads=4">>}

ArgEntries ==
    {[isObject |-> TRUE, hasType |-> TRUE, type |-> t, args |-> a] :
        t \in {"readers.copc", "readers.las"}, a \in ArgValues}
    \cup {[isObject |-> TRUE, hasType |-> FALSE, type |-> "", args |-> <<"threads=4">>],
          [isObject |-> FALSE, hasType |-> FALSE, type |-> "", args |-> <<>>]}

ArgSeqs == UNION {[1..n -> ArgEntries] : n \in 0..MaxArgs}

InitReaderArgs ==
    /\ world = QuietWorld
    /\ WalkerInit
    /\ call \in [entries : ArgSeqs, done : {FALSE}, res : {""}, options : {<<>>}]

\* item.init(filters, rawReaderArgs, ...) with the reader_args of the call
CallReaderArgsInit ==
    /\ ~call.done
    /\ LET r == ItemInit(AlphaDoc, ItemPath(0, 1), ItemFilters(<<>>),
                         [kind |-> IF call.entries = <<>> THEN "null" ELSE "array",
                          entries |-> call.entries],
                         FALSE)
       IN call' = [call EXCEPT !.done = TRUE, !.res = r.res,
                               !.options = r.item.options.args]
    /\ UNCHANGED <<world, nodes, mutex, queue, workers, main, processed>>

NextReaderArgs == CallReaderArgsInit

SpecReaderArgs == InitReaderArgs /\ [][NextReaderArgs]_vars

\* two entries of the reader arguments declare the same driver type
DuplicateDriver(entries) ==
    \E i, j \in 1..Len(entries) :
        /\ i < j
        /\ entries[i].hasType /\ entries[j].hasType
        /\ entries[i].type = entries[j].type

\* C29: Reader arguments that contain two entries with the same driver type
\* are a hard failure: Item init raises instead of building reader options
\* from either entry.
C29_DuplicateReaderArgs ==
    (call.done /\ DuplicateDriver(call.entries)) => call.res = "raise"

\* the Item as init left it, for an entry of an item list
Resolved(w, it) ==
    ItemInit(GetJson(w, it.path).json, it.path, FiltersOf(w).itemFilters,
             NoArgs, w.validate).item

\* C30: An accepted Item copied into a catalog's item list, and from a
\* child's list into the root's list, has the same resolved state as the Item
\* on which init ran: the same driver, the same asset path and the same
\* reader options.
C30_CopyKeepsResolvedState ==
    \A p \in CatPaths : \A i \in 1..Len(nodes[p].itemList) :
        LET it == nodes[p].itemList[i] IN
        /\ it.driver = Resolved(world, it).driver
        /\ it.assetPath = Resolved(world, it).assetPath
        /\ it.options = Resolved(world, it).options

(***************************************************************************)
(* Schema validation inside Item::init and at the head of Catalog::init:   *)
(* one node, its id against the id filter, the validate flag, whether the  *)
(* document satisfies its base schema and each of its extension schemas.   *)
(***************************************************************************)
MaxExt == 2

ExtSeqs == UNION {[1..n -> {[ok |-> TRUE], [ok |-> FALSE]}] : n \in 0..MaxExt}

\* Catalog::init up to the link loop: "rejected", "raise" or "walked", and
\* the schema documents fetched
CatalogInitHead(json, filters, m_root, m_validate) ==
    IF ~CatalogFilter(json, filters, m_root)
    THEN [res |-> "rejected", fetched |-> <<>>]
    ELSE IF m_validate
    THEN [res |-> IF CatalogValidate(json).raise THEN "raise" ELSE "walked",
          fetched |-> CatalogValidate(json).fetched]
    ELSE [res |-> "walked", fetched |-> <<>>]

\* the Item document of the call: id Alpha passes the pattern, Beta does not
SchemaItemDoc(c) ==
    [stac_extensions |-> c.exts] @@
    [ItemDoc(IF c.passes THEN Alpha ELSE Beta, "cloud.laz") EXCEPT
        !.keys = IF c.exts = <<>> THEN @ ELSE @ \cup {"stac_extensions"},
        !.schemaOk = c.schemaOk]

\* the Catalog document of the call: id Sub passes the pattern, XSub does not
SchemaCatalogDoc(c) ==
    [id |-> IF c.passes THEN SubId ELSE OtherId, links |-> <<>>,
     schemaOk |-> c.schemaOk]

InitSchema ==
    /\ world = QuietWorld
    /\ WalkerInit
    /\ call \in [node : {"item", "catalog", "root"}, validate : BOOLEAN,
                  passes : BOOLEAN, schemaOk : BOOLEAN, exts : ExtSeqs,
                  done : {FALSE}, res : {""}, fetched : {<<>>}]

\* item.init(...) or the head of catalog.init(...) on the node of the call
CallSchemaInit ==
    /\ ~call.done
    /\ LET r == IF call.node = "item"
                THEN ItemInit(SchemaItemDoc(call), ItemPath(0, 1), ItemFilters(<<PatA>>),
                              NoArgs, call.validate)
                ELSE CatalogInitHead(SchemaCatalogDoc(call),
                                     [ids |-> <<PatS>>, itemFilters |-> ItemFilters(<<>>)],
                                     call.node = "root", call.validate)
       IN call' = [call EXCEPT !.done = TRUE, !.res = r.res, !.fetched = r.fetched]
    /\ UNCHANGED <<world, nodes, mutex, queue, workers, main, processed>>

NextSchema == CallSchemaInit

SpecSchema == InitSchema /\ [][NextSchema]_vars

\* the node's filters let it through (the root is exempt from the id filter)
PassesFilters(c) == c.passes \/ c.node = "root"

\* the document satisfies every schema it is validated against
SchemaValid(c) ==
    /\ c.schemaOk
    /\ c.node = "item" => \A k \in 1..Len(c.exts) : c.exts[k].ok

\* C31: Schema validation is gated and ordered.  With the validate flag
\* unset no schema document is fetched; a node rejected by its filters is
\* rejected without being validated; with the flag set a node that passed
\* its filters is validated, base schema first, and a validation failure is a
\* hard failure of that node, not a rejection.
C31_ValidationGatedAndOrdered ==
    call.done =>
        /\ ~call.validate => call.fetched = <<>>
        /\ ~PassesFilters(call) => call.res = "rejected" /\ call.fetched = <<>>
        /\ (call.validate /\ PassesFilters(call)) =>
              /\ call.fetched # <<>>
              /\ call.fetched[1] = (IF call.node = "item" THEN ItemSchemaUrl
                                    ELSE CatalogSchemaUrl)
              /\ call.res = (IF ~SchemaValid(call) THEN "raise"
                             ELSE IF call.node = "item" THEN "accepted" ELSE "walked")

\* an Item that passed its filters fails its second extension schema
C31_Witness ==
    /\ call.done
    /\ call.node = "item"
    /\ call.validate /\ call.passes /\ call.schemaOk
    /\ Len(call.exts) = 2 /\ call.exts[1].ok /\ ~call.exts[2].ok
    /\ call.res = "raise"
    /\ Len(call.fetched) = 3

(***************************************************************************)
(* Order of the predicates of Item::filter.  The call fixes, for each      *)
(* predicate, what that predicate alone makes of the Item: "pass",         *)
(* "reject" or a hard failure.                                             *)
(***************************************************************************)
OrderStages == <<"structure", "asset", "id", "collection", "date", "properties", "spatial">>

\* the Item document of the call
OrderDoc(c) ==
    [ItemDoc(Alpha, "cloud.laz") EXCEPT
        !.keys = IF c.structure = "raise" THEN @ \ {"id"} ELSE @,
        !.assets = IF c.asset = "raise"
                   THEN ("data" :> [keys |-> {"type"}, href |-> Rel(<<>>),
                                    type |-> CopcType, head |-> ""])
                   ELSE @,
        !.properties = ("datetime" :> Str(Stamp(1)))
                       @@ ("k" :> IF c.properties = "unsupported" THEN NullV ELSE StrX),
        !.geometry = [valid |-> c.spatial # "raise", box |-> BoxOn(<<0, 1>>)]]

\* the filters of the call
OrderFilters(c) ==
    [ids |-> IF c.id = "reject" THEN <<PatS>> ELSE <<>>,
     collections |-> IF c.collection = "reject" THEN <<PatA>> ELSE <<>>,
     dates |-> CASE c.date = "pass" -> <<>>
                 [] c.date = "reject" -> << <<Stamp(2), Stamp(3)>> >>
                 [] OTHER -> << <<Stamp(0)>> >>,
     properties |-> CASE c.properties = "pass" -> <<>>
                      [] c.properties = "reject" -> ("k" :> StrY)
                      [] c.properties = "missing" -> ("j" :> StrX)
                      [] OTHER -> ("k" :> StrX),
     propertyKeys |-> CASE c.properties = "pass" -> <<>>
                        [] c.properties = "missing" -> <<"j">>
                        [] OTHER -> <<"k">>,
     bounds |-> IF c.spatial = "pass" THEN NoBounds
                ELSE [empty |-> FALSE, is3d |-> FALSE,
                      box |-> IF c.spatial = "reject" THEN BoxOn(<<5, 6>>)
                              ELSE BoxOn(<<0, 1>>)],
     assetNames |-> IF c.asset = "reject" THEN <<"thumbnail">> ELSE <<"data">>]

InitOrder ==
    /\ world = QuietWorld
    /\ WalkerInit
    /\ call \in [structure : {"pass", "raise"},
                  asset : {"pass", "reject", "raise"},
                  id : {"pass", "reject"},
                  collection : {"pass", "reject"},
                  date : {"pass", "reject", "raise"},
                  properties : {"pass", "reject", "missing", "unsupported"},
                  spatial : {"pass", "reject", "raise"},
                  done : {FALSE}, res : {""}]

\* item.init(filters, ...) on the call's Item
CallOrderInit ==
    /\ ~call.done
    /\ call' = [call EXCEPT
                   !.done = TRUE,
                   !.res = ItemInit(OrderDoc(call), ItemPath(0, 1), OrderFilters(call),
                                    NoArgs, FALSE).res]
    /\ UNCHANGED <<world, nodes, mutex, queue, workers, main, processed>>

NextOrder == CallOrderInit

SpecOrder == InitOrder /\ [][NextOrder]_vars

\* what the predicate of stage s alone makes of the call's Item
StageOutcome(c, s) ==
    LET o == CASE s = "structure" -> c.structure
               [] s = "asset" -> c.asset
               [] s = "id" -> c.id
               [] s = "collection" -> c.collection
               [] s = "date" -> c.date
               [] s = "properties" -> c.properties
               [] OTHER -> c.spatial
    IN IF o \in {"pass", "reject"} THEN o ELSE "raise"

\* the first stage, in the stated order, that does not pass (0 when all pass)
FirstDeciding(c) ==
    IF \A i \in 1..Len(OrderStages) : StageOutcome(c, OrderStages[i]) = "pass" THEN 0
    ELSE CHOOSE i \in 1..Len(OrderStages) :
            /\ StageOutcome(c, OrderStages[i]) # "pass"
            /\ \A j \in 1..(i - 1) : StageOutcome(c, OrderStages[j]) = "pass"

\* C32: the predicates of an Item run in the order structure, asset, id,
\* collection, date, properties, spatial and the first one that does not pass
\* decides: the Item is rejected when that predicate rejects, init raises when
\* that predicate fails hard, and no later predicate's hard failure is raised
\* for an Item an earlier predicate rejects.
C32_PredicateOrder ==
    call.done =>
        call.res = (IF FirstDeciding(call) = 0 THEN "accepted"
                    ELSE IF StageOutcome(call, OrderStages[FirstDeciding(call)]) = "reject"
                    THEN "rejected" ELSE "raise")

\* an Item the id predicate rejects although every later predicate would fail hard
C32_Witness ==
    /\ call.done
    /\ call.structure = "pass" /\ call.asset = "pass"
    /\ call.id = "reject"
    /\ call.date = "raise" /\ call.properties = "unsupported" /\ call.spatial = "raise"
    /\ call.res = "rejected"

(***************************************************************************)
(* Lifecycle of the nodes of the walk.  A node that is being filtered is   *)
(* "Unvisited" until Catalog::filter has answered, all within one step of  *)
(* the task that fetched it; a node whose init raised is destroyed, which  *)
(* the walker records as "Failed".                                         *)
(***************************************************************************)
\* the transitions of a live node's status
LifecycleStep(p) ==
    \/ nodes'[p].status = nodes[p].status
    \/ nodes[p].status = "Unvisited"
          /\ nodes'[p].status \in {"Rejected", "FetchingChildren"}
    \/ nodes[p].status = "FetchingChildren" /\ nodes'[p].status = "Aggregated"

\* the node's init raised in this step, or the process died in it
Destroyed(p) ==
    \/ nodes'[p].status = "Failed"
    \/ main'.pc = "crashed"

\* no task of node p is queued or run, and p has accumulated nothing
NoTaskOf(p) ==
    /\ \A i \in 1..Len(queue) : queue[i].node # p
    /\ \A w \in Threads : workers[w].task.node # p
    /\ Seen(nodes[p]) = NoSeen

\* C33: A live node's status moves only along Unvisited -> (Rejected |
\* FetchingChildren) -> Aggregated, filtering being the step out of Unvisited.
\* A Rejected node has no task queued or running, now or later, and keeps its
\* status; only the root reaches Aggregated, and it does so in a step taken
\* with the pool drained.
C33_NodeLifecycle ==
    /\ [](\A p \in CatPaths :
            /\ nodes[p].status = "Rejected" => NoTaskOf(p)
            /\ nodes[p].status = "Aggregated" => p = RootPath /\ PoolDrained)
    /\ [][\A p \in CatPaths :
            /\ LifecycleStep(p) \/ Destroyed(p)
            /\ nodes[p].status = "Rejected" /\ main'.pc # "crashed"
                  => nodes'[p] = nodes[p]
            /\ nodes[p].status # "Aggregated" /\ nodes'[p].status = "Aggregated"
                  => PoolDrained /\ main.pc = "nested"]_vars

\* C33 witness: the walk is over, the root is Aggregated, its child was
\* rejected by the catalog id filter and nothing below the child was visited
C33_Witness ==
    /\ main.pc = "done"
    /\ Root.status = "Aggregated"
    /\ nodes[CatPath(1)].status = "Rejected"
    /\ processed[CatPath(1)] = 1
    /\ nodes[CatPath(2)].status = "Unvisited"

(***************************************************************************)
(* Resolution of the asset path against the hosting document.  The call    *)
(* fixes the host (an item document linked from the catalog at depth       *)
(* `at`, or page `at` of an ItemCollection feed) and the form of the href. *)
(***************************************************************************)
HrefForms == {"sibling", "below", "absolute"}

\* the asset href of the call's Item
HostedHref(c) ==
    CASE c.form = "sibling" -> Rel(<<FeatFiles[c.file]>>)
      [] c.form = "below" -> Rel(<<"data", FeatFiles[c.file]>>)
      [] OTHER -> Abs(<<"store", FeatFiles[c.file]>>)

HostedDoc(c) ==
    [ItemDoc(FeatIds[c.file], FeatFiles[c.file]) EXCEPT
        !.assets = ("data" :> [keys |-> {"href", "type"}, href |-> HostedHref(c),
                               type |-> CopcType, head |-> ""])]

\* the location of the document that hosts the call's Item
HostPath(c) == IF c.host = "catalog" THEN ItemPath(c.at, 1) ELSE PagePath(c.at)

InitHosted ==
    /\ world = QuietWorld
    /\ WalkerInit
    /\ call \in [host : {"catalog"}, at : Depths, form : HrefForms,
                  file : 1..Len(FeatFiles), done : {FALSE}, raise : {FALSE},
                  filename : {<<>>}]
              \cup
              [host : {"page"}, at : 1..(MaxPages + 1), form : HrefForms,
               file : 1..Len(FeatFiles), done : {FALSE}, raise : {FALSE},
               filename : {<<>>}]

\* the item branch of the catalog task: Item item(itemJson, absLinkPath, ...);
\* item.init(...)
CallCatalogItem ==
    /\ ~call.done
    /\ call.host = "catalog"
    /\ LET r == ItemInit(HostedDoc(call), HostPath(call), ItemFilters(<<>>),
                         NoArgs, FALSE)
       IN call' = [call EXCEPT !.done = TRUE,
                               !.raise = r.res # "accepted",
                               !.filename = r.item.options.filename]
    /\ UNCHANGED <<world, nodes, mutex, queue, workers, main, processed>>

\* initializeItem(item, icPath) for a feature of the page at icPath: icPath
\* is not used, the Item is built on m_filename
CallPageFeature ==
    /\ ~call.done
    /\ call.host = "page"
    /\ LET r == ItemReader(HostedDoc(call), RootPage, ReaderFilters)
       IN call' = [call EXCEPT !.done = TRUE,
                               !.raise = r.raise,
                               !.filename = r.reader.options.filename]
    /\ UNCHANGED <<world, nodes, mutex, queue, workers, main, processed>>

NextHosted == CallCatalogItem \/ CallPageFeature

SpecHosted == InitHosted /\ [][NextHosted]_vars

\* C34: The asset path an Item is resolved to, handed to its reader as the
\* filename option, is the asset's href made absolute relative to the location
\* of the document that hosts the Item: the item document's link path under a
\* catalog, the page's own location for a feature embedded in a page.
C34_AssetPathAgainstHost ==
    call.done =>
        /\ ~call.raise
        /\ call.filename = HandleRelativePath(HostPath(call), HostedHref(call))

\* C35: Property equality is decided on the values as they are: under a
\* filter of one key with a numeric value, an Item whose property is numeric
\* is accepted exactly when the two numbers are the same, so the floats 1.25
\* and 1.75 are never equal and integers are equal iff they are the same.
C35_NativeEquality ==
    (call.done /\ ~call.two /\ IsStrictNumber(call.k) /\ IsStrictNumber(call.wantK)) =>
        (call.res = "accepted" <=> Numeric(call.k) = Numeric(call.wantK))

\* C36: Every task a Catalog node enqueued runs only while that node exists:
\* no task of a node whose init raised and which was destroyed is still
\* queued, waits for that node's mutex or writes to that node's lists.
C36_TasksWithinNodeLifetime ==
    /\ \A i \in 1..Len(queue) : nodes[queue[i].node].status # "Failed"
    /\ \A w \in Threads :
          workers[w].pc \in {"lock", "write"} =>
              nodes[workers[w].task.node].status # "Failed"

\* the rels the per-link task has a branch for
WalkedRels == {"item", "catalog", "collection"}

\* the step starts the task at the head of the queue
StartsHead == queue # <<>> /\ queue' = Tail(queue) /\ main'.pc # "crashed"

\* C37: A link whose rel is none of item, catalog, collection changes nothing
\* but the queue when its task runs: the pool thread that takes it stays idle
\* with no document in hand, no node gains an Item, a retained child or an
\* error, and nothing is enqueued. No task ever leads from a node to a node at
\* or above it, so the walker never walks back up.
C37_OtherRelIsInert ==
    /\ [](/\ \A i \in 1..Len(queue) :
                queue[i].linkType \in {"catalog", "collection"} =>
                    DepthOf(queue[i].absLinkPath) > DepthOf(queue[i].node)
          /\ \A p \in CatPaths :
                /\ \A i \in 1..Len(nodes[p].subCatalogs) :
                      DepthOf(nodes[p].subCatalogs[i]) > DepthOf(p)
                /\ \A i \in 1..Len(nodes[p].errors) :
                      nodes[p].errors[i].path # RootPath)
    /\ [][(StartsHead /\ Head(queue).linkType \notin WalkedRels) =>
            /\ nodes' = nodes
            /\ workers' = workers
            /\ mutex' = mutex
            /\ processed' = [processed EXCEPT ![Head(queue).absLinkPath] = @ + 1]]_vars

\* C37 witness: the walk is over, the task of the root's self link has run,
\* and the root holds its two Items, its child and no error
C37_Witness ==
    /\ main.pc = "done"
    /\ processed[RootPath] = 1
    /\ Root.errors = <<>>
    /\ Len(Root.itemList) >= 2
    /\ Root.subCatalogs = <<CatPath(1)>>

\* the Item served at p is well formed and lacks a key the properties filter
\* names
LacksFilterKey(w, p) ==
    /\ ~GetJson(w, p).raise
    /\ ~ValidateForFilterRaises(GetJson(w, p).json)
    /\ \E i \in 1..Len(FiltersOf(w).itemFilters.propertyKeys) :
          FiltersOf(w).itemFilters.propertyKeys[i]
              \notin DOMAIN GetJson(w, p).json.properties

\* C38: A properties filter that names a key the Item lacks makes the Item's
\* init raise: the Item is never listed, the task that initialised it carries
\* an error for its link, and once the walk is over the node that links the
\* Item holds exactly one error entry at the link's path.
C38_MissingKeyRaises ==
    \A d \in Depths : \A p \in ItemLinksAt(world, d) :
        LacksFilterKey(world, p) =>
            /\ \A c \in CatPaths : At(nodes[c].itemList, p) = {}
            /\ \A w \in Threads :
                  (workers[w].pc \in {"lock", "write"} /\ workers[w].task.absLinkPath = p)
                      => workers[w].out.kind = "error"
            /\ (main.pc = "done" /\ nodes[CatPath(d)].status = "FetchingChildren") =>
                  /\ processed[p] = 1
                  /\ Cardinality(At(nodes[CatPath(d)].errors, p)) = 1

\* C38 witness: the walk is over; the retained child links an Item without
\* pc:type, and the child holds the error entry of that link
C38_Witness ==
    /\ main.pc = "done"
    /\ LacksFilterKey(world, ItemPath(1, 1))
    /\ nodes[CatPath(1)].status = "FetchingChildren"
    /\ At(nodes[CatPath(1)].errors, ItemPath(1, 1)) # {}
    /\ At(Root.itemList, ItemPath(0, 1)) # {}

\* the href of the asset the configured asset names select in the Item
\* document served at p, made absolute against p
AssetPathAt(w, p) ==
    HandleRelativePath(p, GetJson(w, p).json.assets["data"].href)

\* C39: Every Item in any node's item list has passed init (its document was
\* fetched and init accepted it), has a non-empty driver, and carries reader
\* options whose filename entry is the asset path its init resolved: the
\* asset's href made absolute against the Item's own location.
C39_ListedItemsAreResolved ==
    \A p \in CatPaths : \A i \in 1..Len(nodes[p].itemList) :
        LET it == nodes[p].itemList[i] IN
        /\ it.path \in ItemPaths
        /\ LinkOutcome(world, it.path) = "accepted"
        /\ it.driver # ""
        /\ it.options.filename # <<>>
        /\ it.options.filename = AssetPathAt(world, it.path)

\* C39 witness: the walk is over and the root's list holds, beside its own
\* Items, the copy of a copy of the child's first Item, with its filename
C39_Witness ==
    /\ main.pc = "done"
    /\ At(Root.itemList, ItemPath(0, 1)) # {}
    /\ \E i \in 1..Len(Root.itemList) :
          /\ Root.itemList[i].path = ItemPath(1, 1)
          /\ Root.itemList[i].driver = "readers.copc"
          /\ Root.itemList[i].options.filename = <<Dirs[1], "alpha.copc.laz">>

====
